---------------------------- MODULE Spec2Model ----------------------------
(***************************************************************************)
(* Take-Grant access graph (modules/access_graph.py) and the security      *)
(* kernel's reachability search (modules/security_kernel.py).              *)
(*                                                                         *)
(* The three dictionaries of AccessGraph are modelled as functions whose   *)
(* DOMAIN is the dictionary's key set, so that a key holding an empty set  *)
(* (which remove_right leaves behind in the two indices) is different from *)
(* an absent key.                                                          *)
(***************************************************************************)
EXTENDS Integers, FiniteSets, Sequences, TLC

\* ---------------------------------------------------------------- bounds
\* identifiers used as call arguments (subjects and objects share a namespace)
Ids == {"a", "b", "c"}

\* number of mutating calls that precede the observed call of a behaviour
MaxOps == 2

\* --------------------------------------------------------- AccessRight
READ == "r"
WRITE == "w"
EXECUTE == "x"
\* AccessRight.TAKE (TAKE is a reserved word of TLA+)
TAKE_RIGHT == "t"
GRANT == "g"
OWN == "o"

AccessRight == {READ, WRITE, EXECUTE, TAKE_RIGHT, GRANT, OWN}

\* rights passed as the single-right argument of add_right / remove_right
\* and as required_right of the kernel's queries
ArgRights == {READ, TAKE_RIGHT, GRANT}

\* right-sets passed as the rights argument of take / grant / remove
ArgRightSets == {{}, {READ, WRITE}, AccessRight}

\* right-sets passed as the rights argument of create, when it is not omitted
CreateRightSets == {{}, {READ}}

\* ------------------------------------------------------------ dictionaries
\* d[k] = v
DictPut(d, k, v) == [x \in (DOMAIN d) \cup {k} |-> IF x = k THEN v ELSE d[x]]

\* del d[k]
DictDel(d, k) == [x \in (DOMAIN d) \ {k} |-> d[x]]

\* d.get(k, default)
DictGet(d, k, default) == IF k \in DOMAIN d THEN d[k] ELSE default

EmptyDict == [x \in {} |-> {}]

\* ------------------------------------------------------------- AccessGraph
\* AccessGraph.__init__
NewAccessGraph ==
    [graph |-> EmptyDict, subject_edges |-> EmptyDict, object_edges |-> EmptyDict]

_normalize_edge(subject_id, object_id) == <<subject_id, object_id>>

\* add_right that toggles the right ("^=" for "|="): a right already on the
\* edge is taken off it
add_right_toggles(G, subject_id, object_id, right) ==
    LET edge == _normalize_edge(subject_id, object_id)
        g1 == IF edge \notin DOMAIN G.graph THEN DictPut(G.graph, edge, {}) ELSE G.graph
        g2 == DictPut(g1, edge, (g1[edge] \cup {right}) \ (g1[edge] \cap {right}))
        s1 == IF subject_id \notin DOMAIN G.subject_edges
              THEN DictPut(G.subject_edges, subject_id, {}) ELSE G.subject_edges
        s2 == DictPut(s1, subject_id, s1[subject_id] \cup {object_id})
        o1 == IF object_id \notin DOMAIN G.object_edges
              THEN DictPut(G.object_edges, object_id, {}) ELSE G.object_edges
        o2 == DictPut(o1, object_id, o1[object_id] \cup {subject_id})
    IN [graph |-> g2, subject_edges |-> s2, object_edges |-> o2]


add_right(G, subject_id, object_id, right) ==
    LET edge == _normalize_edge(subject_id, object_id)
        g1 == IF edge \notin DOMAIN G.graph THEN DictPut(G.graph, edge, {}) ELSE G.graph
        g2 == DictPut(g1, edge, g1[edge] \cup {right})
        s1 == IF subject_id \notin DOMAIN G.subject_edges
              THEN DictPut(G.subject_edges, subject_id, {}) ELSE G.subject_edges
        s2 == DictPut(s1, subject_id, s1[subject_id] \cup {object_id})
        o1 == IF object_id \notin DOMAIN G.object_edges
              THEN DictPut(G.object_edges, object_id, {}) ELSE G.object_edges
        o2 == DictPut(o1, object_id, o1[object_id] \cup {subject_id})
    IN [graph |-> g2, subject_edges |-> s2, object_edges |-> o2]

\* remove_right that deletes the edge and forgets the object index
remove_right_stale_index(G, subject_id, object_id, right) ==
    LET edge == _normalize_edge(subject_id, object_id)
    IN IF edge \in DOMAIN G.graph
       THEN LET g1 == DictPut(G.graph, edge, G.graph[edge] \ {right})
            IN IF g1[edge] = {}
               THEN [G |-> [G EXCEPT !.graph = DictDel(g1, edge),
                                     !.subject_edges =
                                         DictPut(G.subject_edges, subject_id,
                                                 G.subject_edges[subject_id] \ {object_id})],
                     ret |-> "None"]
               ELSE [G |-> [G EXCEPT !.graph = g1], ret |-> "None"]
       ELSE [G |-> G, ret |-> "None"]

\* remove_right that discards the right and leaves the emptied edge in place
remove_right_keeps_empty_edge(G, subject_id, object_id, right) ==
    LET edge == _normalize_edge(subject_id, object_id)
    IN IF edge \in DOMAIN G.graph
       THEN [G |-> [G EXCEPT !.graph = DictPut(G.graph, edge, G.graph[edge] \ {right})],
             ret |-> "None"]
       ELSE [G |-> G, ret |-> "None"]

\* remove_right that clears the two index entries of the deleted edge's
\* subject and object instead of discarding one member of each
remove_right_clears_index(G, subject_id, object_id, right) ==
    LET edge == _normalize_edge(subject_id, object_id)
    IN IF edge \in DOMAIN G.graph
       THEN LET g1 == DictPut(G.graph, edge, G.graph[edge] \ {right})
            IN IF g1[edge] = {}
               THEN [G |-> [graph |-> DictDel(g1, edge),
                            subject_edges |-> DictPut(G.subject_edges, subject_id, {}),
                            object_edges |-> DictPut(G.object_edges, object_id, {})],
                     ret |-> "None"]
               ELSE [G |-> [G EXCEPT !.graph = g1], ret |-> "None"]
       ELSE [G |-> G, ret |-> "None"]

\* remove_right without the test "if edge in self.graph": self.graph[edge]
\* raises KeyError when the edge does not exist
remove_right_unchecked(G, subject_id, object_id, right) ==
    LET edge == _normalize_edge(subject_id, object_id)
    IN IF edge \in DOMAIN G.graph
       THEN LET g1 == DictPut(G.graph, edge, G.graph[edge] \ {right})
            IN IF g1[edge] = {}
               THEN [G |-> [graph |-> DictDel(g1, edge),
                            subject_edges |->
                                DictPut(G.subject_edges, subject_id,
                                        DictGet(G.subject_edges, subject_id, {}) \ {object_id}),
                            object_edges |->
                                DictPut(G.object_edges, object_id,
                                        DictGet(G.object_edges, object_id, {}) \ {subject_id})],
                     ret |-> "None"]
               ELSE [G |-> [G EXCEPT !.graph = g1], ret |-> "None"]
       ELSE [G |-> G, ret |-> "KeyError"]


\* remove_right yields the graph after the call and how the call ended:
\* "None" (normal return) or "KeyError" (self.subject_edges[subject_id] or
\* self.object_edges[object_id] on a missing key, after the edge was deleted).
remove_right(G, subject_id, object_id, right) ==
    LET edge == _normalize_edge(subject_id, object_id)
    IN IF edge \in DOMAIN G.graph
       THEN LET g1 == DictPut(G.graph, edge, G.graph[edge] \ {right})
            IN IF g1[edge] = {}
               THEN LET g2 == DictDel(g1, edge)
                    IN IF subject_id \notin DOMAIN G.subject_edges
                       THEN [G |-> [G EXCEPT !.graph = g2], ret |-> "KeyError"]
                       ELSE LET s2 == DictPut(G.subject_edges, subject_id,
                                              G.subject_edges[subject_id] \ {object_id})
                            IN IF object_id \notin DOMAIN G.object_edges
                               THEN [G |-> [G EXCEPT !.graph = g2, !.subject_edges = s2],
                                     ret |-> "KeyError"]
                               ELSE [G |-> [graph |-> g2,
                                            subject_edges |-> s2,
                                            object_edges |->
                                                DictPut(G.object_edges, object_id,
                                                        G.object_edges[object_id] \ {subject_id})],
                                     ret |-> "None"]
               ELSE [G |-> [G EXCEPT !.graph = g1], ret |-> "None"]
       ELSE [G |-> G, ret |-> "None"]

has_right(G, subject_id, object_id, right) ==
    LET edge == _normalize_edge(subject_id, object_id)
    IN edge \in DOMAIN G.graph /\ right \in G.graph[edge]

get_rights(G, subject_id, object_id) ==
    DictGet(G.graph, _normalize_edge(subject_id, object_id), {})

\* The object get_rights returns: self.graph.get(edge, set()) is the very set
\* stored in self.graph under the edge when the key exists (stored), and a
\* new empty set otherwise.
get_rights_object(G, subject_id, object_id) ==
    LET edge == _normalize_edge(subject_id, object_id)
    IN [stored |-> edge \in DOMAIN G.graph, edge |-> edge]

\* What the set object obj, returned by get_rights in graph G, holds after
\* add_right(subject_id, object_id, right) was called on G: add_right does
\* self.graph[edge].add(right) on the stored set, and stores a new set when
\* the key did not exist.
object_after_add_right(G, obj, subject_id, object_id, right) ==
    IF ~obj.stored THEN {}
    ELSE IF obj.edge = _normalize_edge(subject_id, object_id)
    THEN G.graph[obj.edge] \cup {right}
    ELSE G.graph[obj.edge]

\* The same after remove_right: self.graph[edge].discard(right) acts on the
\* stored set; "del self.graph[edge]" takes the key away, not the set object.
object_after_remove_right(G, obj, subject_id, object_id, right) ==
    IF ~obj.stored THEN {}
    ELSE IF obj.edge = _normalize_edge(subject_id, object_id)
    THEN G.graph[obj.edge] \ {right}
    ELSE G.graph[obj.edge]

\* The graph object after the caller changed the set object obj to hold
\* value: the stored set is the value of self.graph[edge]; nothing else of
\* the graph object is written.
graph_after_object_set(G, obj, value) ==
    IF obj.stored THEN [G EXCEPT !.graph = DictPut(G.graph, obj.edge, value)] ELSE G


\* "for right in rights: self.add_right(s, o, right)" (take, grant, create).
\* add_right cannot fail and the calls for different rights of one edge
\* commute, so the iteration order of the set does not show in the result.
RECURSIVE AddRights(_, _, _, _)
AddRights(G, subject_id, object_id, rights) ==
    IF rights = {} THEN G
    ELSE LET right == CHOOSE x \in rights : TRUE
         IN AddRights(add_right(G, subject_id, object_id, right),
                      subject_id, object_id, rights \ {right})

\* take that adds the requested rights instead of the available ones
take_all_requested(G, subject_id, source_object_id, target_object_id, rights) ==
    IF ~has_right(G, subject_id, source_object_id, TAKE_RIGHT)
    THEN [G |-> G, ret |-> "False"]
    ELSE LET source_rights == get_rights(G, source_object_id, target_object_id)
         IN IF source_rights = {}
            THEN [G |-> G, ret |-> "False"]
            ELSE [G |-> AddRights(G, subject_id, target_object_id, rights),
                  ret |-> IF Cardinality(rights \cap source_rights) > 0
                          THEN "True" ELSE "False"]

\* take that checks the TAKE right only after it has added the rights
take_late_check(G, subject_id, source_object_id, target_object_id, rights) ==
    LET available_rights == rights \cap get_rights(G, source_object_id, target_object_id)
    IN [G |-> AddRights(G, subject_id, target_object_id, available_rights),
        ret |-> IF /\ has_right(G, subject_id, source_object_id, TAKE_RIGHT)
                   /\ Cardinality(available_rights) > 0
                THEN "True" ELSE "False"]

\* take that writes the rights on the edge to the source instead of the
\* edge to the target
take_onto_source(G, subject_id, source_object_id, target_object_id, rights) ==
    IF ~has_right(G, subject_id, source_object_id, TAKE_RIGHT)
    THEN [G |-> G, ret |-> "False"]
    ELSE LET source_rights == get_rights(G, source_object_id, target_object_id)
         IN IF source_rights = {}
            THEN [G |-> G, ret |-> "False"]
            ELSE LET available_rights == rights \cap source_rights
                 IN [G |-> AddRights(G, subject_id, source_object_id, available_rights),
                     ret |-> IF Cardinality(available_rights) > 0 THEN "True" ELSE "False"]


\* take that moves the rights: what the subject takes, the source loses
take_moves(G, subject_id, source_object_id, target_object_id, rights) ==
    IF ~has_right(G, subject_id, source_object_id, TAKE_RIGHT)
    THEN [G |-> G, ret |-> "False"]
    ELSE LET source_rights == get_rights(G, source_object_id, target_object_id)
         IN IF source_rights = {}
            THEN [G |-> G, ret |-> "False"]
            ELSE LET available_rights == rights \cap source_rights
                     G1 == [G EXCEPT !.graph =
                               DictPut(G.graph, _normalize_edge(source_object_id, target_object_id),
                                       source_rights \ available_rights)]
                 IN [G |-> AddRights(G1, subject_id, target_object_id, available_rights),
                     ret |-> IF Cardinality(available_rights) > 0 THEN "True" ELSE "False"]

take(G, subject_id, source_object_id, target_object_id, rights) ==
    IF ~has_right(G, subject_id, source_object_id, TAKE_RIGHT)
    THEN [G |-> G, ret |-> "False"]
    ELSE LET source_rights == get_rights(G, source_object_id, target_object_id)
         IN IF source_rights = {}
            THEN [G |-> G, ret |-> "False"]
            ELSE LET available_rights == rights \cap source_rights
                 IN [G |-> AddRights(G, subject_id, target_object_id, available_rights),
                     ret |-> IF Cardinality(available_rights) > 0 THEN "True" ELSE "False"]

\* grant that passes on everything the grantor holds, whatever was requested
grant_all_held(G, subject_id, source_object_id, target_subject_id, rights) ==
    IF ~has_right(G, subject_id, source_object_id, GRANT)
    THEN [G |-> G, ret |-> "False"]
    ELSE LET subject_rights == get_rights(G, subject_id, source_object_id)
         IN IF subject_rights = {}
            THEN [G |-> G, ret |-> "False"]
            ELSE [G |-> AddRights(G, target_subject_id, source_object_id, subject_rights),
                  ret |-> IF Cardinality(rights \cap subject_rights) > 0
                          THEN "True" ELSE "False"]

\* grant that calls add_right with subject and object swapped: the object
\* receives the rights on the target subject
grant_swapped(G, subject_id, source_object_id, target_subject_id, rights) ==
    IF ~has_right(G, subject_id, source_object_id, GRANT)
    THEN [G |-> G, ret |-> "False"]
    ELSE LET subject_rights == get_rights(G, subject_id, source_object_id)
         IN IF subject_rights = {}
            THEN [G |-> G, ret |-> "False"]
            ELSE LET available_rights == rights \cap subject_rights
                 IN [G |-> AddRights(G, source_object_id, target_subject_id, available_rights),
                     ret |-> IF Cardinality(available_rights) > 0 THEN "True" ELSE "False"]


grant(G, subject_id, source_object_id, target_subject_id, rights) ==
    IF ~has_right(G, subject_id, source_object_id, GRANT)
    THEN [G |-> G, ret |-> "False"]
    ELSE LET subject_rights == get_rights(G, subject_id, source_object_id)
         IN IF subject_rights = {}
            THEN [G |-> G, ret |-> "False"]
            ELSE LET available_rights == rights \cap subject_rights
                 IN [G |-> AddRights(G, target_subject_id, source_object_id, available_rights),
                     ret |-> IF Cardinality(available_rights) > 0 THEN "True" ELSE "False"]

\* the default value of create's rights parameter (rights=None); it is no
\* set of rights
NoneRights == {"None"}

\* create that replaces the rights of the edge by the requested ones
create_replaces(G, subject_id, object_id, rights) ==
    LET rs == IF rights = NoneRights
              THEN {READ, WRITE, EXECUTE, TAKE_RIGHT, GRANT, OWN}
              ELSE rights
        added == AddRights(G, subject_id, object_id, rs)
    IN [G |-> IF rs = {} THEN added
              ELSE [added EXCEPT !.graph = DictPut(added.graph,
                                                   _normalize_edge(subject_id, object_id), rs)],
        ret |-> "True"]

\* create that reports failure when it is given no right to add
create_fails_on_empty(G, subject_id, object_id, rights) ==
    LET rs == IF rights = NoneRights
              THEN {READ, WRITE, EXECUTE, TAKE_RIGHT, GRANT, OWN}
              ELSE rights
    IN [G |-> AddRights(G, subject_id, object_id, rs),
        ret |-> IF rs = {} THEN "False" ELSE "True"]


create(G, subject_id, object_id, rights) ==
    LET rs == IF rights = NoneRights
              THEN {READ, WRITE, EXECUTE, TAKE_RIGHT, GRANT, OWN}
              ELSE rights
    IN [G |-> AddRights(G, subject_id, object_id, rs), ret |-> "True"]

\* remove() called with a set that is a value of its own (not the stored
\* set of the edge): one remove_right per element; an exception ends the loop.
RECURSIVE remove(_, _, _, _)
remove(G, subject_id, object_id, rights) ==
    IF rights = {} THEN [G |-> G, ret |-> "None"]
    ELSE LET right == CHOOSE x \in rights : TRUE
             one == remove_right(G, subject_id, object_id, right)
         IN IF one.ret # "None" THEN one
            ELSE remove(one.G, subject_id, object_id, rights \ {right})

\* remove(s, o, graph.get_rights(s, o)): get_rights returns the stored set
\* itself when the edge exists, so the loop of remove iterates over the set
\* that remove_right shrinks.  The first iteration removes the right `first`
\* (whichever the set's iterator yields first), and the iterator's next step
\* raises RuntimeError("Set changed size during iteration").  With no edge,
\* get_rights returns a fresh empty set and the loop body never runs.
remove_held(G, subject_id, object_id, first) ==
    IF get_rights(G, subject_id, object_id) = {}
    THEN [G |-> G, ret |-> "None"]
    ELSE LET one == remove_right(G, subject_id, object_id, first)
         IN IF one.ret # "None" THEN one
            ELSE [G |-> one.G, ret |-> "RuntimeError"]

\* The order in which self.graph yields its keys: a dict yields them in the
\* order they were inserted, "del" takes a key out of the order and a key
\* inserted again goes to the end.  keys is that order before a mutator call
\* and g the edge map after it; one mutator call inserts at most one key
\* (add_right, create, take and grant write one edge) or deletes at most one
\* (remove_right and remove).
KeysAfter(keys, g) ==
    LET kept == SelectSeq(keys, LAMBDA k : k \in DOMAIN g)
        new == DOMAIN g \ {keys[i] : i \in DOMAIN keys}
    IN IF new = {} THEN kept ELSE Append(kept, CHOOSE k \in new : TRUE)

\* get_all_edges: "for (subject_id, object_id), rights in self.graph.items()"
\* visits the keys in the order keys
get_all_edges(G, keys) ==
    LET listed == SelectSeq(keys, LAMBDA k : G.graph[k] # {})
    IN [i \in 1..Len(listed) |-> <<listed[i][1], listed[i][2], G.graph[listed[i]]>>]

\* get_subject_objects that looks the key up with setdefault: an absent key
\* is inserted with an empty set
get_subject_objects_setdefault(G, subject_id) ==
    [val |-> DictGet(G.subject_edges, subject_id, {}),
     G |-> IF subject_id \in DOMAIN G.subject_edges THEN G
           ELSE [G EXCEPT !.subject_edges = DictPut(G.subject_edges, subject_id, {})]]

\* A call that reads a dictionary yields the value returned (val) and the
\* graph object as the call leaves it (G): dict.get inserts no key.
get_subject_objects(G, subject_id) ==
    [val |-> DictGet(G.subject_edges, subject_id, {}), G |-> G]

get_object_subjects(G, object_id) ==
    [val |-> DictGet(G.object_edges, object_id, {}), G |-> G]

\* ---------------------------------------------------------- SecurityKernel
\* The order in which a Python set yields its elements is fixed by the
\* hashes of the strings, not by the program: an order is a permutation of
\* the identifiers, and a loop over a set visits its members in that order.
IterOrders == {p \in [1..Cardinality(Ids) -> Ids] : \A i, j \in DOMAIN p : i # j => p[i] # p[j]}

Iterate(S, ord) == SelectSeq(ord, LAMBDA x : x \in S)

PyBool(b) == IF b THEN "True" ELSE "False"

\* "for intermediate_object in all_objects" of _dfs_search (lines 112-126),
\* todo being the objects not yet tried
RECURSIVE grant_branch(_, _, _, _)
grant_branch(G, target_object, required_right, todo) ==
    IF todo = <<>> THEN [ret |-> FALSE, G |-> G]
    ELSE LET intermediate_object == Head(todo)
             subjects_with_grant == get_object_subjects(G, intermediate_object)
         IN IF \E grant_subject \in subjects_with_grant.val :
                  /\ has_right(subjects_with_grant.G, grant_subject, intermediate_object, GRANT)
                  /\ has_right(subjects_with_grant.G, intermediate_object, target_object,
                               required_right)
            THEN [ret |-> TRUE, G |-> subjects_with_grant.G]
            ELSE grant_branch(subjects_with_grant.G, target_object, required_right, Tail(todo))

\* _dfs_search, and its loop "for intermediate_object in objects_with_take"
\* (lines 88-104) as take_branch, todo being the objects not yet tried.
\* visited is the set the caller passed (a copy of its own), so what a call
\* adds to it is seen by that call and its callees only.
\* Besides the value returned (ret) and the graph object as the call leaves
\* it (G), both yield how the search ran: visits, the subjects for which
\* _dfs_search went past its visited check (line 78), in the order it did,
\* and depth, the largest number of _dfs_search calls that were active at
\* once.
RECURSIVE _dfs_search(_, _, _, _, _, _)
RECURSIVE take_branch(_, _, _, _, _, _, _)

\* take_branch that filters the objects by GRANT, as the grant branch does,
\* instead of by TAKE
take_branch_filters_by_grant(G, current_subject, target_object, required_right, visited, todo, ord) ==
    IF todo = <<>> THEN [ret |-> FALSE, G |-> G, visits |-> <<>>, depth |-> 0]
    ELSE LET intermediate_object == Head(todo)
         IN IF ~has_right(G, current_subject, intermediate_object, GRANT)
            THEN take_branch(G, current_subject, target_object, required_right,
                             visited, Tail(todo), ord)
            ELSE IF has_right(G, intermediate_object, target_object, required_right)
            THEN [ret |-> TRUE, G |-> G, visits |-> <<>>, depth |-> 0]
            ELSE LET sub == _dfs_search(G, intermediate_object, target_object,
                                        required_right, visited, ord)
                 IN IF sub.ret THEN sub
                    ELSE LET rest == take_branch(sub.G, current_subject, target_object,
                                                 required_right, visited, Tail(todo), ord)
                         IN [ret |-> rest.ret, G |-> rest.G,
                             visits |-> sub.visits \o rest.visits,
                             depth |-> IF sub.depth > rest.depth THEN sub.depth
                                       ELSE rest.depth]

\* take_branch that never calls _dfs_search: it looks one take ahead only
take_branch_one_hop(G, current_subject, target_object, required_right, visited, todo, ord) ==
    IF todo = <<>> THEN [ret |-> FALSE, G |-> G, visits |-> <<>>, depth |-> 0]
    ELSE LET intermediate_object == Head(todo)
         IN IF /\ has_right(G, current_subject, intermediate_object, TAKE_RIGHT)
               /\ has_right(G, intermediate_object, target_object, required_right)
            THEN [ret |-> TRUE, G |-> G, visits |-> <<>>, depth |-> 0]
            ELSE take_branch(G, current_subject, target_object, required_right,
                             visited, Tail(todo), ord)

\* take_branch of a search that guards against cycles by the length of the
\* path (at most five subjects) instead of by the subjects on it: the callee
\* is handed as many marks as the path has subjects
take_branch_depth_guard(G, current_subject, target_object, required_right, visited, todo, ord) ==
    IF todo = <<>> \/ Cardinality(visited) >= 5
    THEN [ret |-> FALSE, G |-> G, visits |-> <<>>, depth |-> 0]
    ELSE LET intermediate_object == Head(todo)
             marks == CHOOSE m \in SUBSET {"#1", "#2", "#3", "#4", "#5"} :
                          Cardinality(m) = Cardinality(visited)
         IN IF ~has_right(G, current_subject, intermediate_object, TAKE_RIGHT)
            THEN take_branch(G, current_subject, target_object, required_right,
                             visited, Tail(todo), ord)
            ELSE IF has_right(G, intermediate_object, target_object, required_right)
            THEN [ret |-> TRUE, G |-> G, visits |-> <<>>, depth |-> 0]
            ELSE LET sub == _dfs_search(G, intermediate_object, target_object,
                                        required_right, marks, ord)
                 IN IF sub.ret THEN sub
                    ELSE LET rest == take_branch(sub.G, current_subject, target_object,
                                                 required_right, visited, Tail(todo), ord)
                         IN [ret |-> rest.ret, G |-> rest.G,
                             visits |-> sub.visits \o rest.visits,
                             depth |-> IF sub.depth > rest.depth THEN sub.depth
                                       ELSE rest.depth]


take_branch(G, current_subject, target_object, required_right, visited, todo, ord) ==
    IF todo = <<>> THEN [ret |-> FALSE, G |-> G, visits |-> <<>>, depth |-> 0]
    ELSE LET intermediate_object == Head(todo)
         IN IF ~has_right(G, current_subject, intermediate_object, TAKE_RIGHT)
            THEN take_branch(G, current_subject, target_object, required_right,
                             visited, Tail(todo), ord)
            ELSE IF has_right(G, intermediate_object, target_object, required_right)
            THEN [ret |-> TRUE, G |-> G, visits |-> <<>>, depth |-> 0]
            ELSE LET sub == _dfs_search(G, intermediate_object, target_object,
                                        required_right, visited, ord)
                 IN IF sub.ret THEN sub
                    ELSE LET rest == take_branch(sub.G, current_subject, target_object,
                                                 required_right, visited, Tail(todo), ord)
                         IN [ret |-> rest.ret, G |-> rest.G,
                             visits |-> sub.visits \o rest.visits,
                             depth |-> IF sub.depth > rest.depth THEN sub.depth
                                       ELSE rest.depth]

_dfs_search(G, current_subject, target_object, required_right, visited, ord) ==
    IF current_subject \in visited
    THEN [ret |-> FALSE, G |-> G, visits |-> <<>>, depth |-> 1]
    ELSE IF has_right(G, current_subject, target_object, required_right)
    THEN [ret |-> TRUE, G |-> G, visits |-> <<current_subject>>, depth |-> 1]
    ELSE LET objects_with_take == get_subject_objects(G, current_subject)
             taken == take_branch(objects_with_take.G, current_subject, target_object,
                                  required_right, visited \cup {current_subject},
                                  Iterate(objects_with_take.val, ord), ord)
             all_objects == {e[2] : e \in DOMAIN taken.G.graph}
             granted == IF taken.ret THEN [ret |-> TRUE, G |-> taken.G]
                        ELSE grant_branch(taken.G, target_object, required_right,
                                          Iterate(all_objects, ord))
         IN [ret |-> granted.ret, G |-> granted.G,
             visits |-> <<current_subject>> \o taken.visits,
             depth |-> 1 + taken.depth]

_find_access_path(G, subject_id, object_id, required_right, ord) ==
    _dfs_search(G, subject_id, object_id, required_right, {}, ord)

\* can_access without the direct check of lines 41-42: it always searches
can_access_always_searches(G, subject_id, object_id, required_right, ord) ==
    LET found == _find_access_path(G, subject_id, object_id, required_right, ord)
    IN [ret |-> found.ret, G |-> found.G, searched |-> TRUE,
        visits |-> found.visits, depth |-> found.depth]

\* can_access yields the value returned (ret), the graph object as the call
\* leaves it (G), whether _find_access_path was called (searched), and the
\* visits and depth of the search it made
can_access(G, subject_id, object_id, required_right, ord) ==
    IF has_right(G, subject_id, object_id, required_right)
    THEN [ret |-> TRUE, G |-> G, searched |-> FALSE, visits |-> <<>>, depth |-> 0]
    ELSE LET found == _find_access_path(G, subject_id, object_id, required_right, ord)
         IN [ret |-> found.ret, G |-> found.G, searched |-> TRUE,
             visits |-> found.visits, depth |-> found.depth]

\* check_right that looks at the direct edge only
check_right_direct_only(G, subject_id, object_id, right, ord) ==
    [ret |-> has_right(G, subject_id, object_id, right), G |-> G, searched |-> FALSE,
     visits |-> <<>>, depth |-> 0]


check_right(G, subject_id, object_id, right, ord) ==
    can_access(G, subject_id, object_id, right, ord)

\* "for object_id in all_objects" of get_accessible_objects, todo being the
\* identifiers not yet tried and accessible the list built so far
RECURSIVE accessible_loop(_, _, _, _, _, _)
\* accessible_loop that returns at the first identifier found accessible
accessible_loop_first_only(G, subject_id, required_right, todo, accessible, ord) ==
    IF todo = <<>> THEN [ret |-> accessible, G |-> G]
    ELSE LET object_id == Head(todo)
             can == can_access(G, subject_id, object_id, required_right, ord)
         IN IF can.ret THEN [ret |-> Append(accessible, object_id), G |-> can.G]
            ELSE accessible_loop(can.G, subject_id, required_right, Tail(todo),
                                 accessible, ord)


accessible_loop(G, subject_id, required_right, todo, accessible, ord) ==
    IF todo = <<>> THEN [ret |-> accessible, G |-> G]
    ELSE LET object_id == Head(todo)
             can == can_access(G, subject_id, object_id, required_right, ord)
         IN accessible_loop(can.G, subject_id, required_right, Tail(todo),
                            IF can.ret THEN Append(accessible, object_id) ELSE accessible,
                            ord)

get_accessible_objects(G, subject_id, required_right, ord) ==
    LET all_objects == {e[2] : e \in DOMAIN G.graph} \cup {e[1] : e \in DOMAIN G.graph}
    IN accessible_loop(G, subject_id, required_right, Iterate(all_objects, ord), <<>>, ord)

\* -------------------------------------------------------- ObjectIdentifier
\* ObjectType.FILE, ObjectType.DIRECTORY
FILE == "file"
DIRECTORY == "directory"

\* the identifiers uuid4 hands out to generate_id
Uuids == {"b", "c"}

\* the names given to files and directories
Names == {"f", "g"}

\* the ObjectIdentifier object: its two dictionaries
NewObjectIdentifier == [objects |-> EmptyDict, name_to_id |-> EmptyDict]

\* what get_object returns when it returns None
NoObject ==
    [id |-> "None", name |-> "None", type |-> "None", owner |-> "None", parent_id |-> "None"]

\* create_object, object_id being the value generate_id returns; the field
\* created_at (a clock reading nothing reads) is left out.  ret is the new
\* object_id, or "ValueError" when the name is taken.
create_object(OI, object_id, name, obj_type, owner, parent_id) ==
    IF name \in DOMAIN OI.name_to_id
    THEN [OI |-> OI, ret |-> "ValueError"]
    ELSE [OI |-> [objects |-> DictPut(OI.objects, object_id,
                                      [id |-> object_id, name |-> name, type |-> obj_type,
                                       owner |-> owner, parent_id |-> parent_id]),
                  name_to_id |-> DictPut(OI.name_to_id, name, object_id)],
          ret |-> object_id]

get_object(OI, identifier) ==
    IF identifier \in DOMAIN OI.objects THEN OI.objects[identifier]
    ELSE IF identifier \in DOMAIN OI.name_to_id THEN OI.objects[OI.name_to_id[identifier]]
    ELSE NoObject

get_object_id(OI, identifier) ==
    IF identifier \in DOMAIN OI.objects THEN identifier
    ELSE IF identifier \in DOMAIN OI.name_to_id THEN OI.name_to_id[identifier]
    ELSE "None"

\* ObjectIdentifier.delete_object
identifier_delete_object(OI, identifier) ==
    LET object_id == get_object_id(OI, identifier)
    IN IF object_id = "None" THEN [OI |-> OI, ret |-> FALSE]
       ELSE LET name == OI.objects[object_id].name
            IN [OI |-> [objects |-> DictDel(OI.objects, object_id),
                        name_to_id |-> IF name \in DOMAIN OI.name_to_id
                                       THEN DictDel(OI.name_to_id, name)
                                       ELSE OI.name_to_id],
                ret |-> TRUE]

\* -------------------------------------------------------- OperationsModule
\* The operations act on M, the OperationsModule with the objects it holds:
\* M.G the AccessGraph, M.OI the ObjectIdentifier, M.file_contents.

\* create_file that gives the owner READ, WRITE and OWN only
create_file_three_rights(M, subject_id, name, new_id) ==
    LET made == create_object(M.OI, new_id, name, FILE, subject_id, "None")
    IN IF made.ret = "ValueError" THEN [M |-> M, ret |-> "None"]
       ELSE [M |-> [G |-> create(M.G, subject_id, made.ret, {READ, WRITE, OWN}).G,
                    OI |-> made.OI,
                    file_contents |-> DictPut(M.file_contents, made.ret, "")],
             ret |-> made.ret]

\* create_file, new_id being the value generate_id returns; ret is the new
\* object_id or "None"
create_file(M, subject_id, name, new_id) ==
    LET made == create_object(M.OI, new_id, name, FILE, subject_id, "None")
    IN IF made.ret = "ValueError" THEN [M |-> M, ret |-> "None"]
       ELSE [M |-> [G |-> create(M.G, subject_id, made.ret, NoneRights).G,
                    OI |-> made.OI,
                    file_contents |-> DictPut(M.file_contents, made.ret, "")],
             ret |-> made.ret]

create_directory(M, subject_id, name, new_id) ==
    LET made == create_object(M.OI, new_id, name, DIRECTORY, subject_id, "None")
    IN IF made.ret = "ValueError" THEN [M |-> M, ret |-> "None"]
       ELSE [M |-> [M EXCEPT !.G = create(M.G, subject_id, made.ret, NoneRights).G,
                             !.OI = made.OI],
             ret |-> made.ret]

\* delete_object without the check of the owner and of the OWN right
delete_object_unchecked(M, subject_id, object_id, ord) ==
    LET obj == get_object(M.OI, object_id)
    IN IF obj = NoObject THEN [M |-> M, ret |-> "False"]
       ELSE LET edges_to_remove == {e \in DOMAIN M.G.graph : e[2] = object_id}
                deleted == identifier_delete_object(M.OI, object_id)
            IN [M |-> [G |-> [M.G EXCEPT !.graph =
                                  [e \in DOMAIN M.G.graph \ edges_to_remove |-> M.G.graph[e]]],
                       OI |-> deleted.OI,
                       file_contents |-> IF object_id \in DOMAIN M.file_contents
                                         THEN DictDel(M.file_contents, object_id)
                                         ELSE M.file_contents],
                ret |-> PyBool(deleted.ret)]

\* OperationsModule.delete_object.  The edges to the object are deleted from
\* access_graph.graph directly (line 189), not through remove_right.
delete_object(M, subject_id, object_id, ord) ==
    LET obj == get_object(M.OI, object_id)
    IN IF obj = NoObject THEN [M |-> M, ret |-> "False"]
       ELSE LET allowed == IF obj.owner # subject_id
                           THEN can_access(M.G, subject_id, object_id, OWN, ord)
                           ELSE [ret |-> TRUE, G |-> M.G]
            IN IF ~allowed.ret THEN [M |-> [M EXCEPT !.G = allowed.G], ret |-> "False"]
               ELSE LET G == allowed.G
                        edges_to_remove == {e \in DOMAIN G.graph : e[2] = object_id}
                        deleted == identifier_delete_object(M.OI, object_id)
                    IN [M |-> [G |-> [G EXCEPT !.graph =
                                          [e \in DOMAIN G.graph \ edges_to_remove |-> G.graph[e]]],
                               OI |-> deleted.OI,
                               file_contents |-> IF object_id \in DOMAIN M.file_contents
                                                 THEN DictDel(M.file_contents, object_id)
                                                 ELSE M.file_contents],
                        ret |-> PyBool(deleted.ret)]


\* read_file that does not ask the kernel
read_file_unchecked(M, subject_id, object_id, ord) ==
    LET obj == get_object(M.OI, object_id)
    IN IF obj = NoObject \/ obj.type # FILE THEN [M |-> M, ret |-> "None"]
       ELSE [M |-> M, ret |-> DictGet(M.file_contents, object_id, "")]


\* read_file; ret is the content or "None".  The kernel is asked first, with
\* the identifier as given; the content is looked up under the same identifier.
read_file(M, subject_id, object_id, ord) ==
    LET allowed == can_access(M.G, subject_id, object_id, READ, ord)
        M1 == [M EXCEPT !.G = allowed.G]
        obj == get_object(M.OI, object_id)
    IN IF ~allowed.ret THEN [M |-> M1, ret |-> "None"]
       ELSE IF obj = NoObject \/ obj.type # FILE THEN [M |-> M1, ret |-> "None"]
       ELSE [M |-> M1, ret |-> DictGet(M.file_contents, object_id, "")]

\* write_file that stores the content before it asks the kernel
write_file_stores_first(M, subject_id, object_id, content, ord) ==
    LET allowed == can_access(M.G, subject_id, object_id, WRITE, ord)
        M1 == [M EXCEPT !.G = allowed.G,
                        !.file_contents = DictPut(M.file_contents, object_id, content)]
        obj == get_object(M.OI, object_id)
    IN IF ~allowed.ret THEN [M |-> M1, ret |-> "False"]
       ELSE IF obj = NoObject \/ obj.type # FILE THEN [M |-> M1, ret |-> "False"]
       ELSE [M |-> M1, ret |-> "True"]

write_file(M, subject_id, object_id, content, ord) ==
    LET allowed == can_access(M.G, subject_id, object_id, WRITE, ord)
        M1 == [M EXCEPT !.G = allowed.G]
        obj == get_object(M.OI, object_id)
    IN IF ~allowed.ret THEN [M |-> M1, ret |-> "False"]
       ELSE IF obj = NoObject \/ obj.type # FILE THEN [M |-> M1, ret |-> "False"]
       ELSE [M |-> [M1 EXCEPT !.file_contents = DictPut(M.file_contents, object_id, content)],
             ret |-> "True"]

execute_file(M, subject_id, object_id, ord) ==
    LET allowed == can_access(M.G, subject_id, object_id, EXECUTE, ord)
        M1 == [M EXCEPT !.G = allowed.G]
        obj == get_object(M.OI, object_id)
    IN IF ~allowed.ret THEN [M |-> M1, ret |-> "False"]
       ELSE IF obj = NoObject \/ obj.type # FILE THEN [M |-> M1, ret |-> "False"]
       ELSE [M |-> M1, ret |-> "True"]


\* ---------------------------------------------------- AuthenticationModule
\* The module is A: A.users and A.current_user ("None" for None).

\* sha256 of the password: equal passwords, and only they, hash alike
_hash_password(password) == <<"sha256", password>>

\* the values Python takes for false where a name is expected
Falsy(x) == x \in {"None", ""}

\* AuthenticationModule.__init__ after load_data read the registry `loaded`
\* from the data file (empty when there is no file)
NewAuthenticationModule(loaded) == [users |-> loaded, current_user |-> "None"]

register(A, username, password) ==
    IF username \in DOMAIN A.users THEN [A |-> A, ret |-> FALSE]
    ELSE [A |-> [A EXCEPT !.users = DictPut(A.users, username,
                                            [password_hash |-> _hash_password(password),
                                             is_admin |-> FALSE])],
          ret |-> TRUE]

login(A, username, password) ==
    IF username \notin DOMAIN A.users THEN [A |-> A, ret |-> FALSE]
    ELSE IF A.users[username].password_hash = _hash_password(password)
    THEN [A |-> [A EXCEPT !.current_user = username], ret |-> TRUE]
    ELSE [A |-> A, ret |-> FALSE]

logout(A) == [A EXCEPT !.current_user = "None"]

is_authenticated(A) == A.current_user # "None"

\* is_admin: "user = username or self.current_user"
is_admin(A, username) ==
    LET user == IF Falsy(username) THEN A.current_user ELSE username
    IN /\ ~Falsy(user)
       /\ user \in DOMAIN A.users
       /\ A.users[user].is_admin

\* ------------------------------------------------------------ AdminModule
\* The module holds the AuthenticationModule A and the AccessGraph G.

\* AdminModule.is_admin
admin_is_admin(A, username) == is_admin(A, username)

\* grant_rights: one add_right per right
grant_rights(A, G, admin_username, subject_id, object_id, rights) ==
    IF ~admin_is_admin(A, admin_username) THEN [G |-> G, ret |-> "False"]
    ELSE [G |-> AddRights(G, subject_id, object_id, rights), ret |-> "True"]

\* "for right in rights: remove_right(...)" of revoke_rights; an exception
\* of remove_right ends the loop and the call
RECURSIVE revoke_loop(_, _, _, _)
revoke_loop(G, subject_id, object_id, rights) ==
    IF rights = {} THEN [G |-> G, ret |-> "True"]
    ELSE LET right == CHOOSE x \in rights : TRUE
             one == remove_right(G, subject_id, object_id, right)
         IN IF one.ret # "None" THEN one
            ELSE revoke_loop(one.G, subject_id, object_id, rights \ {right})

revoke_rights(A, G, admin_username, subject_id, object_id, rights) ==
    IF ~admin_is_admin(A, admin_username) THEN [G |-> G, ret |-> "False"]
    ELSE revoke_loop(G, subject_id, object_id, rights)


\* -------------------------------------------------------------------- CLI
\* The interpreter is S: S.M the OperationsModule with its graph and
\* registry, S.A the AuthenticationModule, S.current_user_id ("None" for
\* None).  A handler returns the interpreter as the command leaves it; what
\* it prints and what it sends to the audit log is left out.

\* CLI.__init__
NewCLI(M, A) == [M |-> M, A |-> A, current_user_id |-> "None"]

\* str.lower on the letters typed for rights
lower(r) ==
    LET small == [c \in {"R", "W", "X", "T", "G", "O"} |->
                     CASE c = "R" -> "r" [] c = "W" -> "w" [] c = "X" -> "x"
                       [] c = "T" -> "t" [] c = "G" -> "g" [] c = "O" -> "o"]
    IN IF r \in DOMAIN small THEN small[r] ELSE r

\* the parsing of "rights_str" in handle_take, handle_grant and handle_admin:
\* parts is rights_str.split(','); letters that name no right are skipped
parse_rights(parts) == {lower(parts[i]) : i \in DOMAIN parts} \cap AccessRight

require_auth(S) == ~Falsy(S.current_user_id)

handle_register(S, username, password) ==
    [S EXCEPT !.A = register(S.A, username, password).A]

handle_login(S, username, password) ==
    LET res == login(S.A, username, password)
    IN IF res.ret THEN [S EXCEPT !.A = res.A, !.current_user_id = username] ELSE S

\* handle_logout: self.auth is not told
handle_logout(S) ==
    IF ~Falsy(S.current_user_id) THEN [S EXCEPT !.current_user_id = "None"] ELSE S

\* handle_create_file without require_auth
handle_create_file_no_auth(S, name, new_id) ==
    [S EXCEPT !.M = create_file(S.M, S.current_user_id, name, new_id).M]

handle_create_file(S, name, new_id) ==
    IF ~require_auth(S) THEN S
    ELSE [S EXCEPT !.M = create_file(S.M, S.current_user_id, name, new_id).M]

handle_create_directory(S, name, new_id) ==
    IF ~require_auth(S) THEN S
    ELSE [S EXCEPT !.M = create_directory(S.M, S.current_user_id, name, new_id).M]

handle_read(S, obj_id, ord) ==
    IF ~require_auth(S) THEN S
    ELSE [S EXCEPT !.M = read_file(S.M, S.current_user_id, obj_id, ord).M]

handle_write(S, obj_id, content, ord) ==
    IF ~require_auth(S) THEN S
    ELSE [S EXCEPT !.M = write_file(S.M, S.current_user_id, obj_id, content, ord).M]

handle_delete(S, obj_id, ord) ==
    IF ~require_auth(S) THEN S
    ELSE [S EXCEPT !.M = delete_object(S.M, S.current_user_id, obj_id, ord).M]

handle_take(S, source, target, rights_str) ==
    IF ~require_auth(S) THEN S
    ELSE [S EXCEPT !.M.G = take(S.M.G, S.current_user_id, source, target,
                                parse_rights(rights_str)).G]

handle_grant(S, source, target, rights_str) ==
    IF ~require_auth(S) THEN S
    ELSE [S EXCEPT !.M.G = grant(S.M.G, S.current_user_id, source, target,
                                 parse_rights(rights_str)).G]

handle_check(S, obj_id, right_str, ord) ==
    IF ~require_auth(S) THEN S
    ELSE IF lower(right_str) \notin AccessRight THEN S
    ELSE [S EXCEPT !.M.G = can_access(S.M.G, S.current_user_id, obj_id,
                                      lower(right_str), ord).G]

\* handle_admin; cmd is "grant" or one of the commands that only list
handle_admin(S, cmd, subject, obj, rights_str) ==
    IF ~require_auth(S) THEN S
    ELSE IF ~admin_is_admin(S.A, S.current_user_id) THEN S
    ELSE IF cmd # "grant" THEN S
    ELSE [S EXCEPT !.M.G = grant_rights(S.A, S.M.G, S.current_user_id, subject, obj,
                                        parse_rights(rights_str)).G]


\* ------------------------------------------------------------------ state
VARIABLES
    graph,          \* AccessGraph.graph: (subject_id, object_id) -> set of rights
    subject_edges,  \* AccessGraph.subject_edges: subject_id -> set of object ids
    object_edges,   \* AccessGraph.object_edges: object_id -> set of subject ids
    nops,           \* number of mutating calls made before the observed call
    call,           \* the observed call: name, arguments and how it ended
    pre,            \* the AccessGraph object as it was when the observed call began
    graph_keys,     \* the keys of AccessGraph.graph in the order the dict yields them
    objects,        \* ObjectIdentifier.objects: object_id -> data of the object
    name_to_id,     \* ObjectIdentifier.name_to_id: name -> object_id
    file_contents,  \* OperationsModule.file_contents: object_id -> content
    users,          \* AuthenticationModule.users: username -> password_hash, is_admin
    current_user,   \* AuthenticationModule.current_user
    current_user_id \* CLI.current_user_id

vars == <<graph, subject_edges, object_edges, nops, call, pre, graph_keys,
          objects, name_to_id, file_contents, users, current_user, current_user_id>>

\* the state of the ObjectIdentifier and of the OperationsModule, which no
\* method of AccessGraph or SecurityKernel reads or writes
opsVars == <<objects, name_to_id, file_contents>>

\* the state of the AuthenticationModule and of the CLI, which no method of
\* the graph, the kernel or the operations layer reads or writes
authVars == <<users, current_user, current_user_id>>

\* the AccessGraph object in the current state
AG == [graph |-> graph, subject_edges |-> subject_edges, object_edges |-> object_edges]

NoCall == [op |-> "none"]

\* the value of graph_keys in the behaviours that do not follow the order of
\* the keys of self.graph
KeysNotFollowed == "not followed"

Init ==
    /\ graph = NewAccessGraph.graph
    /\ subject_edges = NewAccessGraph.subject_edges
    /\ object_edges = NewAccessGraph.object_edges
    /\ nops = 0
    /\ call = NoCall
    /\ pre = NewAccessGraph
    /\ graph_keys = KeysNotFollowed
    /\ objects = NewObjectIdentifier.objects
    /\ name_to_id = NewObjectIdentifier.name_to_id
    /\ file_contents = EmptyDict
    /\ users = EmptyDict
    /\ current_user = "None"
    /\ current_user_id = "None"

\* the state after construction, in the behaviours that follow the order of
\* the keys of self.graph: the dict is empty
InitEdges ==
    /\ graph = NewAccessGraph.graph
    /\ subject_edges = NewAccessGraph.subject_edges
    /\ object_edges = NewAccessGraph.object_edges
    /\ nops = 0
    /\ call = NoCall
    /\ pre = NewAccessGraph
    /\ graph_keys = <<>>
    /\ objects = NewObjectIdentifier.objects
    /\ name_to_id = NewObjectIdentifier.name_to_id
    /\ file_contents = EmptyDict
    /\ users = EmptyDict
    /\ current_user = "None"
    /\ current_user_id = "None"

\* A call on the graph object that leaves it as res.G and ends as res.ret.
\* A behaviour is a sequence of at most MaxOps calls followed by one more
\* call, the observed one, whose arguments, result and pre-call graph are
\* kept in call and pre; nothing is called after the observed call.
\* Only get_all_edges reads the order of the keys of self.graph: the
\* behaviours of SpecEdges follow it, and the calls of the other
\* specifications, none of which lists the edges, leave graph_keys at
\* KeysNotFollowed.
Call(name, ids, rights, res) ==
    /\ UNCHANGED graph_keys
    /\ UNCHANGED <<opsVars, authVars>>
    /\ graph' = res.G.graph
    /\ subject_edges' = res.G.subject_edges
    /\ object_edges' = res.G.object_edges
    /\ \/ /\ nops < MaxOps
          /\ nops' = nops + 1
          /\ UNCHANGED <<call, pre>>
       \/ /\ call' = [op |-> name, ids |-> ids, rights |-> rights, ret |-> res.ret]
          /\ pre' = AG
          /\ UNCHANGED nops

AddRight(s, o, r) ==
    Call("add_right", <<s, o>>, {r}, [G |-> add_right(AG, s, o, r), ret |-> "None"])

RemoveRight(s, o, r) ==
    Call("remove_right", <<s, o>>, {r}, remove_right(AG, s, o, r))

Take(s, src, tgt, R) == Call("take", <<s, src, tgt>>, R, take(AG, s, src, tgt, R))

Grant(s, src, tgt, R) == Call("grant", <<s, src, tgt>>, R, grant(AG, s, src, tgt, R))

Create(s, o, R) == Call("create", <<s, o>>, R, create(AG, s, o, R))

Remove(s, o, R) == Call("remove", <<s, o>>, R, remove(AG, s, o, R))

\* remove(s, o, get_rights(s, o)); `first` is the right the iterator yields first
RemoveHeld(s, o, first) ==
    /\ first \in get_rights(AG, s, o)
    /\ Call("remove_held", <<s, o>>, get_rights(AG, s, o), remove_held(AG, s, o, first))

\* no call has been observed yet
Ready == call = NoCall

Next ==
    \/ Ready /\ \E s, o \in Ids, r \in ArgRights : AddRight(s, o, r)
    \/ Ready /\ \E s, o \in Ids, r \in ArgRights : RemoveRight(s, o, r)
    \/ Ready /\ \E s, src, tgt \in Ids, R \in ArgRightSets : Take(s, src, tgt, R)
    \/ Ready /\ \E s, src, tgt \in Ids, R \in ArgRightSets : Grant(s, src, tgt, R)
    \/ Ready /\ \E s, o \in Ids, R \in CreateRightSets \cup {NoneRights} : Create(s, o, R)
    \/ Ready /\ \E s, o \in Ids, R \in ArgRightSets : Remove(s, o, R)
    \/ Ready /\ \E s, o \in Ids, first \in AccessRight : RemoveHeld(s, o, first)

Spec == Init /\ [][Next]_vars

\* A call on the security kernel; it is always the observed call.
Query(name, ids, right, res, ret, searched) ==
    /\ UNCHANGED graph_keys
    /\ UNCHANGED <<opsVars, authVars>>
    /\ graph' = res.G.graph
    /\ subject_edges' = res.G.subject_edges
    /\ object_edges' = res.G.object_edges
    /\ call' = [op |-> name, ids |-> ids, rights |-> {right}, ret |-> ret,
                searched |-> searched]
    /\ pre' = AG
    /\ UNCHANGED nops

CanAccess(s, o, r, ord) ==
    LET res == can_access(AG, s, o, r, ord)
    IN Query("can_access", <<s, o>>, r, res, PyBool(res.ret), res.searched)

CheckRight(s, o, r, ord) ==
    LET res == check_right(AG, s, o, r, ord)
    IN Query("check_right", <<s, o>>, r, res, PyBool(res.ret), res.searched)

GetAccessibleObjects(s, r, ord) ==
    LET res == get_accessible_objects(AG, s, r, ord)
    IN Query("get_accessible_objects", <<s>>, r, res, res.ret, FALSE)

\* The security kernel queried on a graph that add_right and remove_right
\* have built: every other mutator changes the graph object only through
\* these two.
NextKernel ==
    \/ Ready /\ \E s, o \in Ids, r \in ArgRights : AddRight(s, o, r)
    \/ Ready /\ \E s, o \in Ids, r \in ArgRights : RemoveRight(s, o, r)
    \/ Ready /\ \E s, o \in Ids, r \in ArgRights, ord \in IterOrders : CanAccess(s, o, r, ord)
    \/ Ready /\ \E s, o \in Ids, ord \in IterOrders : CheckRight(s, o, READ, ord)
    \/ Ready /\ \E s \in Ids, r \in {READ, GRANT}, ord \in IterOrders :
                    GetAccessibleObjects(s, r, ord)

SpecKernel == Init /\ [][NextKernel]_vars

\* A mutator call made before the observed call, in a behaviour that follows
\* the order of the keys of self.graph.
Before(res) ==
    /\ nops < MaxOps
    /\ nops' = nops + 1
    /\ graph' = res.G.graph
    /\ subject_edges' = res.G.subject_edges
    /\ object_edges' = res.G.object_edges
    /\ graph_keys' = KeysAfter(graph_keys, res.G.graph)
    /\ UNCHANGED <<call, pre>>
    /\ UNCHANGED <<opsVars, authVars>>

\* get_all_edges(), the observed call
GetAllEdges ==
    /\ call' = [op |-> "get_all_edges", ids |-> <<>>, rights |-> {},
                ret |-> get_all_edges(AG, graph_keys)]
    /\ pre' = AG
    /\ UNCHANGED <<graph, subject_edges, object_edges, graph_keys, nops>>
    /\ UNCHANGED <<opsVars, authVars>>

\* The core mutators followed by one listing of the edges.
NextEdges ==
    \/ Ready /\ \E s, o \in Ids, r \in ArgRights :
                    Before([G |-> add_right(AG, s, o, r), ret |-> "None"])
    \/ Ready /\ \E s, o \in Ids, r \in ArgRights : Before(remove_right(AG, s, o, r))
    \/ Ready /\ \E s, src, tgt \in Ids, R \in ArgRightSets : Before(take(AG, s, src, tgt, R))
    \/ Ready /\ \E s, src, tgt \in Ids, R \in ArgRightSets : Before(grant(AG, s, src, tgt, R))
    \/ Ready /\ \E s, o \in Ids, R \in CreateRightSets \cup {NoneRights} :
                    Before(create(AG, s, o, R))
    \/ Ready /\ \E s, o \in Ids, R \in ArgRightSets : Before(remove(AG, s, o, R))
    \/ Ready /\ \E s, o \in Ids, first \in AccessRight :
                    first \in get_rights(AG, s, o) /\ Before(remove_held(AG, s, o, first))
    \/ Ready /\ GetAllEdges

SpecEdges == InitEdges /\ [][NextEdges]_vars

\* A caller keeps rs = get_rights(s, o) and something is done next; the
\* observed call records what rs held when it was returned (held_before) and
\* what it holds afterwards (held_after).
Held(name, ids, right, G, before, after) ==
    /\ graph' = G.graph
    /\ subject_edges' = G.subject_edges
    /\ object_edges' = G.object_edges
    /\ call' = [op |-> name, ids |-> ids, rights |-> {right}, ret |-> "None",
                held_before |-> before, held_after |-> after]
    /\ pre' = AG
    /\ UNCHANGED <<nops, graph_keys>>
    /\ UNCHANGED <<opsVars, authVars>>

\* rs = get_rights(s, o); add_right(s, o, r)
GetRightsThenAddRight(s, o, r) ==
    LET rs == get_rights_object(AG, s, o)
    IN Held("get_rights;add_right", <<s, o>>, r, add_right(AG, s, o, r),
            get_rights(AG, s, o), object_after_add_right(AG, rs, s, o, r))

\* rs = get_rights(s, o); remove_right(s, o, r)
GetRightsThenRemoveRight(s, o, r) ==
    LET rs == get_rights_object(AG, s, o)
    IN Held("get_rights;remove_right", <<s, o>>, r, remove_right(AG, s, o, r).G,
            get_rights(AG, s, o), object_after_remove_right(AG, rs, s, o, r))

\* rs = get_rights(s, o); rs.add(r)
GetRightsThenAdd(s, o, r) ==
    LET rs == get_rights_object(AG, s, o)
        value == get_rights(AG, s, o) \cup {r}
    IN Held("get_rights;add", <<s, o>>, r, graph_after_object_set(AG, rs, value),
            get_rights(AG, s, o), value)

\* rs = get_rights(s, o); rs.discard(r)
GetRightsThenDiscard(s, o, r) ==
    LET rs == get_rights_object(AG, s, o)
        value == get_rights(AG, s, o) \ {r}
    IN Held("get_rights;discard", <<s, o>>, r, graph_after_object_set(AG, rs, value),
            get_rights(AG, s, o), value)

\* A graph built by add_right and remove_right, then a caller that keeps the
\* set get_rights returned.
NextAlias ==
    \/ Ready /\ \E s, o \in Ids, r \in ArgRights : AddRight(s, o, r)
    \/ Ready /\ \E s, o \in Ids, r \in ArgRights : RemoveRight(s, o, r)
    \/ Ready /\ \E s, o \in Ids, r \in ArgRights : GetRightsThenAddRight(s, o, r)
    \/ Ready /\ \E s, o \in Ids, r \in ArgRights : GetRightsThenRemoveRight(s, o, r)
    \/ Ready /\ \E s, o \in Ids, r \in ArgRights : GetRightsThenAdd(s, o, r)
    \/ Ready /\ \E s, o \in Ids, r \in ArgRights : GetRightsThenDiscard(s, o, r)

SpecAlias == Init /\ [][NextAlias]_vars


\* the OperationsModule in the current state
OM ==
    [G |-> AG, OI |-> [objects |-> objects, name_to_id |-> name_to_id],
     file_contents |-> file_contents]

\* the current state becomes M
Becomes(M) ==
    /\ graph' = M.G.graph
    /\ subject_edges' = M.G.subject_edges
    /\ object_edges' = M.G.object_edges
    /\ objects' = M.OI.objects
    /\ name_to_id' = M.OI.name_to_id
    /\ file_contents' = M.file_contents

\* uuid4 returns an identifier that nothing in the system bears yet
Fresh(new_id, subject_id) ==
    /\ new_id # subject_id
    /\ new_id \notin DOMAIN objects
    /\ new_id \notin DOMAIN subject_edges \cup DOMAIN object_edges
    /\ \A e \in DOMAIN graph : new_id \notin {e[1], e[2]}

\* a call of the operations layer made before the observed call
BeforeOp(res) ==
    /\ nops < MaxOps
    /\ nops' = nops + 1
    /\ Becomes(res.M)
    /\ UNCHANGED <<call, pre, graph_keys, authVars>>

CreateFile(subject_id, name, new_id) ==
    /\ name \in DOMAIN name_to_id \/ Fresh(new_id, subject_id)
    /\ BeforeOp(create_file(OM, subject_id, name, new_id))

CreateDirectory(subject_id, name, new_id) ==
    /\ name \in DOMAIN name_to_id \/ Fresh(new_id, subject_id)
    /\ BeforeOp(create_directory(OM, subject_id, name, new_id))

\* delete_object, the observed call; before is the OperationsModule as it
\* was when the call began
DeleteObject(subject_id, object_id, ord) ==
    LET res == delete_object(OM, subject_id, object_id, ord)
    IN /\ Becomes(res.M)
       /\ call' = [op |-> "delete_object", ids |-> <<subject_id, object_id>>,
                   rights |-> {OWN}, ret |-> res.ret, before |-> OM]
       /\ pre' = AG
       /\ UNCHANGED <<nops, graph_keys, authVars>>

\* Files and directories are created, rights are added, and an object is
\* deleted.
NextOps ==
    \/ Ready /\ \E s, o \in Ids, r \in {TAKE_RIGHT, OWN} : AddRight(s, o, r)
    \/ Ready /\ \E s \in Ids, name \in Names, new_id \in Uuids : CreateFile(s, name, new_id)
    \/ Ready /\ \E s \in Ids, name \in Names, new_id \in Uuids : CreateDirectory(s, name, new_id)
    \/ Ready /\ \E s \in Ids, x \in Uuids \cup Names, ord \in IterOrders : DeleteObject(s, x, ord)

SpecOps == Init /\ [][NextOps]_vars


\* ------------------------------------------------ the operations on files
\* the contents written to files
Contents == {"x"}

\* what the file operations are given as object: IDs and names
FileArgs == Uuids \cup Names

\* A call of the operations layer that leaves the OperationsModule as res.M
\* and ends as res.ret: one of the at most MaxOps calls made first, or the
\* observed call, kept with the OperationsModule as it was when it began.
Op(name, ids, rights, res) ==
    /\ Becomes(res.M)
    /\ UNCHANGED <<graph_keys, authVars>>
    /\ \/ /\ nops < MaxOps
          /\ nops' = nops + 1
          /\ UNCHANGED <<call, pre>>
       \/ /\ call' = [op |-> name, ids |-> ids, rights |-> rights, ret |-> res.ret,
                      before |-> OM]
          /\ pre' = AG
          /\ UNCHANGED nops

OpCreateFile(subject_id, name, new_id) ==
    /\ name \in DOMAIN name_to_id \/ Fresh(new_id, subject_id)
    /\ Op("create_file", <<subject_id, name>>, {}, create_file(OM, subject_id, name, new_id))

OpCreateDirectory(subject_id, name, new_id) ==
    /\ name \in DOMAIN name_to_id \/ Fresh(new_id, subject_id)
    /\ Op("create_directory", <<subject_id, name>>, {},
          create_directory(OM, subject_id, name, new_id))

ReadFile(subject_id, object_id, ord) ==
    Op("read_file", <<subject_id, object_id>>, {READ}, read_file(OM, subject_id, object_id, ord))

WriteFile(subject_id, object_id, content, ord) ==
    Op("write_file", <<subject_id, object_id, content>>, {WRITE},
       write_file(OM, subject_id, object_id, content, ord))

ExecuteFile(subject_id, object_id, ord) ==
    Op("execute_file", <<subject_id, object_id>>, {EXECUTE},
       execute_file(OM, subject_id, object_id, ord))

\* Rights are added (on IDs and on a name), files and directories are
\* created, files are read, written and executed.
NextFiles ==
    \/ Ready /\ \E s \in Ids, o \in Ids \cup {"f"}, r \in {READ, TAKE_RIGHT} : AddRight(s, o, r)
    \/ Ready /\ \E s \in Ids, name \in Names, new_id \in Uuids : OpCreateFile(s, name, new_id)
    \/ Ready /\ \E s \in Ids, name \in Names, new_id \in Uuids : OpCreateDirectory(s, name, new_id)
    \/ Ready /\ \E s \in Ids, x \in FileArgs, ord \in IterOrders : ReadFile(s, x, ord)
    \/ Ready /\ \E s \in Ids, x \in FileArgs, c \in Contents, ord \in IterOrders : WriteFile(s, x, c, ord)
    \/ Ready /\ \E s \in Ids, x \in FileArgs, ord \in IterOrders : ExecuteFile(s, x, ord)

SpecFiles == Init /\ [][NextFiles]_vars


\* --------------------------------------------------- the trojan scenario
\* the contents alice writes
Secrets == {"x", "y"}

\* what call holds before the step of the scenario it names has been made
NotYet == "not yet"

\* demonstrate_trojan_vulnerability on a system just constructed: alice
\* creates a file; call keeps who alice and the attacker are, the ID of the
\* file, and what each later step of the scenario returned.
TrojanCreate(alice, attacker, name, new_id) ==
    LET res == create_file(OM, alice, name, new_id)
    IN /\ call = NoCall
       /\ alice # attacker
       /\ Fresh(new_id, alice)
       /\ new_id # attacker
       /\ Becomes(res.M)
       /\ call' = [op |-> "trojan", ids |-> <<alice, attacker, res.ret>>,
                   written |-> NotYet, denied |-> NotYet, granted |-> NotYet,
                   can_read |-> NotYet, content |-> NotYet]
       /\ pre' = AG
       /\ UNCHANGED <<nops, graph_keys, authVars>>

\* a later step of the scenario: the system becomes M, call becomes c
TrojanStep(M, c) ==
    /\ call.op = "trojan"
    /\ Becomes(M)
    /\ call' = c
    /\ UNCHANGED <<nops, pre, graph_keys, authVars>>

\* alice writes the file, before the trojan runs
TrojanWrite(secret, ord) ==
    /\ call.op = "trojan"
    /\ call.granted = NotYet
    /\ LET res == write_file(OM, call.ids[1], call.ids[3], secret, ord)
       IN TrojanStep(res.M, [call EXCEPT !.written = IF res.ret = "True" THEN secret ELSE @])

\* the attacker tries to read the file before the trojan has run
TrojanDenied(ord) ==
    /\ call.op = "trojan"
    /\ call.granted = NotYet
    /\ LET res == read_file(OM, call.ids[2], call.ids[3], ord)
       IN TrojanStep(res.M, [call EXCEPT !.denied = res.ret])

\* the trojan, running as alice, grants READ and WRITE on the file
TrojanGrant ==
    /\ call.op = "trojan"
    /\ call.granted = NotYet
    /\ LET res == grant(AG, call.ids[1], call.ids[3], call.ids[2], {READ, WRITE})
       IN TrojanStep([OM EXCEPT !.G = res.G], [call EXCEPT !.granted = res.ret])

\* the attacker asks the kernel, after the trojan has run
TrojanCanAccess(ord) ==
    /\ call.op = "trojan"
    /\ call.granted # NotYet
    /\ LET res == can_access(AG, call.ids[2], call.ids[3], READ, ord)
       IN TrojanStep([OM EXCEPT !.G = res.G], [call EXCEPT !.can_read = PyBool(res.ret)])

\* the attacker reads the file, after the trojan has run
TrojanRead(ord) ==
    /\ call.op = "trojan"
    /\ call.granted # NotYet
    /\ LET res == read_file(OM, call.ids[2], call.ids[3], ord)
       IN TrojanStep(res.M, [call EXCEPT !.content = res.ret])

NextTrojan ==
    \/ \E alice, attacker \in Ids, name \in Names, new_id \in Uuids : TrojanCreate(alice, attacker, name, new_id)
    \/ \E secret \in Secrets, ord \in IterOrders : TrojanWrite(secret, ord)
    \/ \E ord \in IterOrders : TrojanDenied(ord)
    \/ TrojanGrant
    \/ \E ord \in IterOrders : TrojanCanAccess(ord)
    \/ \E ord \in IterOrders : TrojanRead(ord)

SpecTrojan == Init /\ [][NextTrojan]_vars


\* ------------------------------------------------ the administrator's calls
\* the names users register under
UserNames == {"a", "b"}

\* the passwords typed
Passwords == {"p", "q"}

\* the registries load_data may find in the data file: none, or user "a"
\* made administrator by make_admin.py
DataFiles ==
    {EmptyDict, [u \in {"a"} |-> [password_hash |-> _hash_password("p"), is_admin |-> TRUE]]}

\* the AuthenticationModule in the current state
AM == [users |-> users, current_user |-> current_user]

\* the state after construction, the data file holding any of DataFiles
InitAuth ==
    /\ graph = NewAccessGraph.graph
    /\ subject_edges = NewAccessGraph.subject_edges
    /\ object_edges = NewAccessGraph.object_edges
    /\ nops = 0
    /\ call = NoCall
    /\ pre = NewAccessGraph
    /\ graph_keys = KeysNotFollowed
    /\ objects = NewObjectIdentifier.objects
    /\ name_to_id = NewObjectIdentifier.name_to_id
    /\ file_contents = EmptyDict
    /\ \E loaded \in DataFiles :
           /\ users = NewAuthenticationModule(loaded).users
           /\ current_user = NewAuthenticationModule(loaded).current_user
           /\ current_user_id =
                  NewCLI([G |-> NewAccessGraph, OI |-> NewObjectIdentifier,
                          file_contents |-> EmptyDict],
                         NewAuthenticationModule(loaded)).current_user_id

\* a call on the AuthenticationModule made before the observed call
BeforeAuth(A) ==
    /\ nops < MaxOps
    /\ nops' = nops + 1
    /\ users' = A.users
    /\ current_user' = A.current_user
    /\ UNCHANGED <<graph, subject_edges, object_edges, call, pre, graph_keys, opsVars,
                   current_user_id>>

AuthRegister(username, password) == BeforeAuth(register(AM, username, password).A)

AuthLogin(username, password) == BeforeAuth(login(AM, username, password).A)

AuthLogout == BeforeAuth(logout(AM))

\* a call of grant_rights or revoke_rights, the observed call; auth is the
\* AuthenticationModule it found
AdminCall(name, ids, rights, res) ==
    /\ graph' = res.G.graph
    /\ subject_edges' = res.G.subject_edges
    /\ object_edges' = res.G.object_edges
    /\ call' = [op |-> name, ids |-> ids, rights |-> rights, ret |-> res.ret, auth |-> AM]
    /\ pre' = AG
    /\ UNCHANGED <<nops, graph_keys, opsVars, authVars>>

GrantRights(admin_username, subject_id, object_id, rights) ==
    AdminCall("grant_rights", <<admin_username, subject_id, object_id>>, rights,
              grant_rights(AM, AG, admin_username, subject_id, object_id, rights))

RevokeRights(admin_username, subject_id, object_id, rights) ==
    AdminCall("revoke_rights", <<admin_username, subject_id, object_id>>, rights,
              revoke_rights(AM, AG, admin_username, subject_id, object_id, rights))

\* the names grant_rights and revoke_rights are called with: registered or
\* not, and the empty name
CallerNames == UserNames \cup {"c", ""}

\* Users register, log in and out, rights are added, and the administrator's
\* calls are made under any name.
NextAdmin ==
    \/ Ready /\ \E u \in UserNames : AuthRegister(u, "p")
    \/ Ready /\ \E u \in UserNames, p \in Passwords : AuthLogin(u, p)
    \/ Ready /\ AuthLogout
    \/ Ready /\ \E s, o \in Ids, r \in ArgRights : AddRight(s, o, r)
    \/ Ready /\ \E n \in CallerNames, s, o \in Ids, R \in ArgRightSets : GrantRights(n, s, o, R)
    \/ Ready /\ \E n \in CallerNames, s, o \in Ids, R \in ArgRightSets : RevokeRights(n, s, o, R)

SpecAdmin == InitAuth /\ [][NextAdmin]_vars


\* --------------------------------------------------- the command interpreter
\* number of commands typed
MaxCmds == 4

\* the identifier uuid4 hands out to the interpreter's one object
CliUuids == {"c"}

\* what is typed as object of read, write, delete and check: an ID, a name
CliObjects == {"c", "f"}

\* what is typed as rights
RightsStrs == {<<"r", "w">>, <<"T", "g", "z">>}

\* the interpreter in the current state
Cli == [M |-> OM, A |-> AM, current_user_id |-> current_user_id]

\* One command: the interpreter becomes S; call keeps the command and the
\* interpreter as it was.
Command(cmd, S) ==
    /\ nops < MaxCmds
    /\ nops' = nops + 1
    /\ Becomes(S.M)
    /\ users' = S.A.users
    /\ current_user' = S.A.current_user
    /\ current_user_id' = S.current_user_id
    /\ call' = [op |-> "cli", cmd |-> cmd, before |-> Cli]
    /\ pre' = AG
    /\ UNCHANGED graph_keys

CmdRegister(username, password) == Command("register", handle_register(Cli, username, password))

CmdLogin(username, password) == Command("login", handle_login(Cli, username, password))

CmdLogout == Command("logout", handle_logout(Cli))

CmdCreateFile(name, new_id) ==
    /\ name \in DOMAIN name_to_id \/ (Fresh(new_id, current_user_id) /\ new_id \notin UserNames)
    /\ Command("create_file", handle_create_file(Cli, name, new_id))

CmdCreateDir(name, new_id) ==
    /\ name \in DOMAIN name_to_id \/ (Fresh(new_id, current_user_id) /\ new_id \notin UserNames)
    /\ Command("create_dir", handle_create_directory(Cli, name, new_id))

CmdRead(obj_id, ord) == Command("read", handle_read(Cli, obj_id, ord))

CmdWrite(obj_id, content, ord) == Command("write", handle_write(Cli, obj_id, content, ord))

CmdDelete(obj_id, ord) == Command("delete", handle_delete(Cli, obj_id, ord))

CmdTake(source, target, rights_str) == Command("take", handle_take(Cli, source, target, rights_str))

CmdGrant(source, target, rights_str) == Command("grant", handle_grant(Cli, source, target, rights_str))

CmdCheck(obj_id, right_str, ord) == Command("check", handle_check(Cli, obj_id, right_str, ord))

CmdAdmin(cmd, subject, obj, rights_str) == Command("admin", handle_admin(Cli, cmd, subject, obj, rights_str))

\* CLI.run: the commands, in any order
NextCli ==
    \/ \E u \in UserNames : CmdRegister(u, "p")
    \/ \E u \in UserNames, p \in Passwords : CmdLogin(u, p)
    \/ CmdLogout
    \/ \E name \in Names, new_id \in CliUuids : CmdCreateFile(name, new_id)
    \/ \E name \in Names, new_id \in CliUuids : CmdCreateDir(name, new_id)
    \/ \E x \in CliObjects, ord \in IterOrders : CmdRead(x, ord)
    \/ \E x \in CliObjects, c \in Contents, ord \in IterOrders : CmdWrite(x, c, ord)
    \/ \E x \in CliObjects, ord \in IterOrders : CmdDelete(x, ord)
    \/ \E src, tgt \in Ids, rs \in RightsStrs : CmdTake(src, tgt, rs)
    \/ \E src, tgt \in Ids, rs \in RightsStrs : CmdGrant(src, tgt, rs)
    \/ \E x \in CliObjects, r \in {"r", "O", "?"}, ord \in IterOrders : CmdCheck(x, r, ord)
    \/ \E cmd \in {"grant", "matrix"}, s, o \in Ids, rs \in RightsStrs : CmdAdmin(cmd, s, o, rs)

SpecCli == InitAuth /\ [][NextCli]_vars


\* ------------------------------------------------------------------ claims
\* C1: index consistency.  In every state reached by add_right, remove_right,
\* create, take, grant and remove from the empty graph, for all s and o:
\* (s, o) is a key of the edge map iff o is in get_subject_objects(s) iff
\* s is in get_object_subjects(o).
C1_IndexConsistency ==
    \A s, o \in Ids :
        /\ (<<s, o>> \in DOMAIN graph) <=> (o \in get_subject_objects(AG, s).val)
        /\ (<<s, o>> \in DOMAIN graph) <=> (s \in get_object_subjects(AG, o).val)

\* C1 witness: the observed remove_right deleted the last right of an edge
\* while another edge of the same subject stays.
C1_Witness ==
    /\ call.op = "remove_right"
    /\ <<call.ids[1], call.ids[2]>> \in DOMAIN pre.graph
    /\ <<call.ids[1], call.ids[2]>> \notin DOMAIN graph
    /\ \E o \in Ids : <<call.ids[1], o>> \in DOMAIN graph

\* C2: take(subject, source, target, R) returns true iff, before the call,
\* subject holds TAKE on source and R meets get_rights(source, target); when
\* it returns true, get_rights(subject, target) afterwards is its pre-call
\* value united with R \cap get_rights(source, target) as it stood before.
C2_TakeContract ==
    call.op = "take" =>
        LET subject == call.ids[1]
            source == call.ids[2]
            target == call.ids[3]
            offered == call.rights \cap get_rights(pre, source, target)
        IN /\ call.ret = "True" <=>
                (has_right(pre, subject, source, TAKE_RIGHT) /\ offered # {})
           /\ call.ret = "True" =>
                get_rights(AG, subject, target) = get_rights(pre, subject, target) \cup offered

\* C2 witness: a take that returned true, gained a right the subject did not
\* hold, and was asked for a right the source could not offer.
C2_Witness ==
    /\ call.op = "take"
    /\ call.ret = "True"
    /\ call.ids[1] # call.ids[2]
    /\ get_rights(AG, call.ids[1], call.ids[3]) # get_rights(pre, call.ids[1], call.ids[3])
    /\ ~(call.rights \subseteq get_rights(pre, call.ids[2], call.ids[3]))

\* C3: grant(subject, source, target_subject, R) returns true iff, before the
\* call, subject holds GRANT on source and R meets get_rights(subject, source);
\* when it returns true, get_rights(target_subject, source) afterwards is its
\* pre-call value united with R \cap get_rights(subject, source) as it stood
\* before.
C3_GrantContract ==
    call.op = "grant" =>
        LET subject == call.ids[1]
            source == call.ids[2]
            target_subject == call.ids[3]
            offered == call.rights \cap get_rights(pre, subject, source)
        IN /\ call.ret = "True" <=>
                (has_right(pre, subject, source, GRANT) /\ offered # {})
           /\ call.ret = "True" =>
                get_rights(AG, target_subject, source) =
                    get_rights(pre, target_subject, source) \cup offered

\* C3 witness: the grantor holds all six rights on the source, is asked for
\* READ and WRITE, and the target subject ends with READ and WRITE only.
C3_Witness ==
    /\ call.op = "grant"
    /\ call.ret = "True"
    /\ call.ids[1] # call.ids[3]
    /\ call.rights = {READ, WRITE}
    /\ get_rights(pre, call.ids[1], call.ids[2]) = AccessRight
    /\ get_rights(pre, call.ids[3], call.ids[2]) = {}
    /\ get_rights(AG, call.ids[3], call.ids[2]) = {READ, WRITE}

\* C4: a take or grant that returns false leaves the edge map and both
\* indices as they were; one that returns true has applied the whole
\* intersection of the requested rights with the rights on offer.
C4_FailureChangesNothing ==
    /\ (call.op \in {"take", "grant"} /\ call.ret = "False") => AG = pre
    /\ (call.op = "take" /\ call.ret = "True") =>
           (call.rights \cap get_rights(pre, call.ids[2], call.ids[3]))
               \subseteq get_rights(AG, call.ids[1], call.ids[3])
    /\ (call.op = "grant" /\ call.ret = "True") =>
           (call.rights \cap get_rights(pre, call.ids[1], call.ids[2]))
               \subseteq get_rights(AG, call.ids[3], call.ids[2])

\* C4 witness: a take that returned false although the source holds a requested
\* right on the target, because the caller lacks TAKE on the source.
C4_Witness ==
    /\ call.op = "take"
    /\ call.ret = "False"
    /\ call.rights \cap get_rights(pre, call.ids[2], call.ids[3]) # {}
    /\ ~has_right(pre, call.ids[1], call.ids[2], TAKE_RIGHT)
    /\ get_rights(pre, call.ids[1], call.ids[3]) = {}

\* The rights that take and grant can produce from the graph object G: the
\* rights every pair holds in G, to which is added, again and again until
\* nothing changes, what every take and every grant that asks for all six
\* rights gives.  take and grant only add rights, and what they add grows
\* with the graph and with the rights asked for, so the result holds exactly
\* the rights that some finite sequence of successful take and grant calls
\* (by any subjects) can produce.
RightsOf(G) == [e \in Ids \X Ids |-> get_rights(G, e[1], e[2])]

GraphOf(R) ==
    LET edges == {e \in Ids \X Ids : R[e] # {}}
    IN [graph |-> [e \in edges |-> R[e]],
        subject_edges |-> [s \in {e[1] : e \in edges} |-> {e[2] : e \in {d \in edges : d[1] = s}}],
        object_edges |-> [o \in {e[2] : e \in edges} |-> {e[1] : e \in {d \in edges : d[2] = o}}]]

RewriteStep(R) ==
    LET G == GraphOf(R)
    IN [e \in Ids \X Ids |->
            R[e] \cup UNION {get_rights(take(G, e[1], x, e[2], AccessRight).G, e[1], e[2]) : x \in Ids}
                 \cup UNION {get_rights(grant(G, x, e[2], e[1], AccessRight).G, e[1], e[2]) : x \in Ids}]

RECURSIVE RewriteClosure(_)
RewriteClosure(R) ==
    LET R1 == RewriteStep(R)
    IN IF R1 = R THEN R ELSE RewriteClosure(R1)

\* has_right(s, o, r) holds in G or after some finite sequence of successful
\* take and grant calls made from G
Obtainable(G, s, o, r) == r \in RewriteClosure(RightsOf(G))[<<s, o>>]

\* C5: soundness of can_access.  If can_access(s, o, r) returns true then
\* has_right(s, o, r) holds already or after some finite sequence of
\* successful take and grant calls.
C5_CanAccessSound ==
    (call.op = "can_access" /\ call.ret = "True") =>
        \E r \in call.rights : Obtainable(pre, call.ids[1], call.ids[2], r)

\* C6: completeness of can_access.  If some finite sequence of successful
\* take and grant calls leads to a graph in which has_right(s, o, r) holds,
\* then can_access(s, o, r) returns true in the current graph.
C6_CanAccessComplete ==
    (call.op = "can_access" /\ call.ret = "False") =>
        \A r \in call.rights : ~Obtainable(pre, call.ids[1], call.ids[2], r)

\* the identifiers joined to x by edges of G, whatever their direction
RECURSIVE Component(_, _)
Component(G, S) ==
    LET S1 == S \cup {e[2] : e \in {d \in DOMAIN G.graph : d[1] \in S}}
                \cup {e[1] : e \in {d \in DOMAIN G.graph : d[2] \in S}}
    IN IF S1 = S THEN S ELSE Component(G, S1)

\* x and y are identifiers of two parts of G's edges with no edge between
\* the identifiers of one part and those of the other
Separated(G, x, y) ==
    /\ \E e \in DOMAIN G.graph : x \in {e[1], e[2]}
    /\ \E e \in DOMAIN G.graph : y \in {e[1], e[2]}
    /\ y \notin Component(G, {x})

\* C7: isolation of disjoint subgraphs.  With subject X in one part and
\* object Y in the other, can_access(X, Y, r) is false for every r and Y is
\* not in get_accessible_objects(X, r).
C7_DisjointIsolated ==
    /\ (call.op = "can_access" /\ Separated(pre, call.ids[1], call.ids[2]))
           => call.ret = "False"
    /\ call.op = "get_accessible_objects" =>
           \A i \in DOMAIN call.ret : ~Separated(pre, call.ids[1], call.ret[i])

\* C8: direct implies reachable.  has_right(s, o, r) implies that
\* can_access(s, o, r) and check_right(s, o, r) return true, without the
\* search being entered.
C8_DirectImpliesReachable ==
    call.op \in {"can_access", "check_right"} =>
        \A r \in call.rights :
            has_right(pre, call.ids[1], call.ids[2], r) =>
                (call.ret = "True" /\ ~call.searched)

\* C8 witness: can_access was called for a right held directly while other
\* edges exist.
C8_Witness ==
    /\ call.op = "can_access"
    /\ \A r \in call.rights : has_right(pre, call.ids[1], call.ids[2], r)
    /\ Cardinality(DOMAIN pre.graph) > 1

\* C9: one-hop take is anticipated.  Whenever take(s, src, tgt, {r}) would
\* return true, can_access(s, tgt, r) returns true before the take, and after
\* the take it returns true by the direct edge.
C9_OneHopTakeAnticipated ==
    call.op = "can_access" =>
        \A src \in Ids, r \in call.rights :
            LET taken == take(pre, call.ids[1], src, call.ids[2], {r})
            IN taken.ret = "True" =>
                /\ call.ret = "True"
                /\ \A ord \in IterOrders :
                       LET after == can_access(taken.G, call.ids[1], call.ids[2], r, ord)
                       IN after.ret /\ ~after.searched

\* C9 witness: can_access returned true for a right the subject does not hold
\* but could take from another identifier.
C9_Witness ==
    /\ call.op = "can_access"
    /\ call.ret = "True"
    /\ call.searched
    /\ \E src \in Ids \ {call.ids[1], call.ids[2]}, r \in call.rights :
           take(pre, call.ids[1], src, call.ids[2], {r}).ret = "True"

\* C10: the reachability engine is read-only.  can_access, check_right and
\* get_accessible_objects leave the edge map and both indices unchanged, also
\* for identifiers absent from the graph.
C10_KernelReadOnly ==
    call.op \in {"can_access", "check_right", "get_accessible_objects"} => AG = pre

\* C10 witness: the search ran for a subject and an object that are keys of
\* no dictionary of a graph that has edges.
C10_Witness ==
    /\ call.op = "can_access"
    /\ call.searched
    /\ pre.graph # EmptyDict
    /\ call.ids[1] \notin DOMAIN pre.subject_edges
    /\ call.ids[2] \notin DOMAIN pre.object_edges

\* C11: no empty edges.  After any sequence of core mutators every key of
\* the edge map has a non-empty right-set; has_right(s, o, r) is true iff the
\* edge (s, o) exists and holds r; get_all_edges lists every stored edge, with
\* its rights, exactly once.
C11_NoEmptyEdges ==
    /\ \A e \in DOMAIN graph : graph[e] # {}
    /\ \A s, o \in Ids, r \in AccessRight :
           has_right(AG, s, o, r) <=> (get_rights(AG, s, o) # {} /\ r \in get_rights(AG, s, o))
    /\ call.op = "get_all_edges" =>
           /\ {<<call.ret[i][1], call.ret[i][2]>> : i \in DOMAIN call.ret} = DOMAIN pre.graph
           /\ Len(call.ret) = Cardinality(DOMAIN pre.graph)
           /\ \A i \in DOMAIN call.ret :
                  call.ret[i][3] = get_rights(pre, call.ret[i][1], call.ret[i][2])

\* C11 witness: the edges were listed after the last right of the only edge
\* had been removed (the subject's index key is still there): nothing is
\* listed and the edge map has no key.
C11_Witness ==
    /\ call.op = "get_all_edges"
    /\ call.ret = <<>>
    /\ pre.graph = EmptyDict
    /\ \E s \in DOMAIN pre.subject_edges : pre.subject_edges[s] = {}


\* C12: edge cleanup.  When a remove_right leaves no right on edge (s, o),
\* whatever calls came before it, get_rights(s, o) is empty, o is not in
\* get_subject_objects(s) and s is not in get_object_subjects(o); and the
\* index entries of every other edge are as they were.
C12_EdgeCleanup ==
    call.op = "remove_right" =>
        LET s == call.ids[1]
            o == call.ids[2]
        IN /\ (get_rights(pre, s, o) \subseteq call.rights) =>
                  /\ get_rights(AG, s, o) = {}
                  /\ o \notin get_subject_objects(AG, s).val
                  /\ s \notin get_object_subjects(AG, o).val
           /\ \A s2, o2 \in Ids :
                  <<s2, o2>> # <<s, o>> =>
                      /\ (o2 \in get_subject_objects(AG, s2).val)
                             <=> (o2 \in get_subject_objects(pre, s2).val)
                      /\ (s2 \in get_object_subjects(AG, o2).val)
                             <=> (s2 \in get_object_subjects(pre, o2).val)

\* C12 witness: the observed remove_right took the last right off an edge
\* whose object another subject still has an edge to.
C12_Witness ==
    /\ call.op = "remove_right"
    /\ call.ret = "None"
    /\ get_rights(pre, call.ids[1], call.ids[2]) = call.rights
    /\ get_rights(AG, call.ids[1], call.ids[2]) = {}
    /\ \E s \in Ids \ {call.ids[1]} : call.ids[2] \in get_subject_objects(AG, s).val


\* C13 as stated: after create(s, o, Rs), get_rights(s, o) equals Rs, and all
\* six rights when the rights are omitted, whatever the graph was before.
C13_CreateExactlyRequested ==
    call.op = "create" =>
        get_rights(AG, call.ids[1], call.ids[2]) =
            (IF call.rights = NoneRights THEN AccessRight ELSE call.rights)

\* C13 amended: after create(s, o, Rs), get_rights(s, o) equals the rights
\* the edge held before the call united with Rs (with all six rights when the
\* rights are omitted); it equals Rs when the edge did not exist before.
C13_CreateAddsRequested ==
    call.op = "create" =>
        LET requested == IF call.rights = NoneRights THEN AccessRight ELSE call.rights
        IN get_rights(AG, call.ids[1], call.ids[2]) =
               get_rights(pre, call.ids[1], call.ids[2]) \cup requested

\* C13 witness: create asked for READ on an edge that held another right.
C13_Witness ==
    /\ call.op = "create"
    /\ call.rights = {READ}
    /\ get_rights(pre, call.ids[1], call.ids[2]) = {TAKE_RIGHT}
    /\ get_rights(AG, call.ids[1], call.ids[2]) = {READ, TAKE_RIGHT}

\* C14: create(s, o, Rs) returns true for every argument combination (s = o,
\* an existing edge, an empty Rs), every right of Rs (all six when omitted)
\* is on edge (s, o) afterwards, and no edge loses a right.
C14_CreateAlwaysSucceeds ==
    call.op = "create" =>
        /\ call.ret = "True"
        /\ (IF call.rights = NoneRights THEN AccessRight ELSE call.rights)
               \subseteq get_rights(AG, call.ids[1], call.ids[2])
        /\ \A s, o \in Ids : get_rights(pre, s, o) \subseteq get_rights(AG, s, o)

\* C14 witness: create with the rights omitted, of an identifier on itself,
\* on an edge that existed already.
C14_Witness ==
    /\ call.op = "create"
    /\ call.rights = NoneRights
    /\ call.ids[1] = call.ids[2]
    /\ get_rights(pre, call.ids[1], call.ids[2]) # {}
    /\ get_rights(AG, call.ids[1], call.ids[2]) = AccessRight
    /\ Cardinality(DOMAIN pre.graph) > 1


\* C15: idempotence of add_right.  The edge map and both indices after
\* add_right(s, o, r) applied twice equal those after applying it once.
C15_AddRightIdempotent ==
    call.op = "add_right" =>
        \A r \in call.rights : add_right(AG, call.ids[1], call.ids[2], r) = AG

\* C15 witness: the observed add_right put a second right on an existing edge
\* (so the state after one application differs from the state before).
C15_Witness ==
    /\ call.op = "add_right"
    /\ get_rights(pre, call.ids[1], call.ids[2]) # {}
    /\ ~(call.rights \subseteq get_rights(pre, call.ids[1], call.ids[2]))
    /\ call.rights \subseteq get_rights(AG, call.ids[1], call.ids[2])

\* C16: remove_right(s, o, r) signals no error; when edge (s, o) does not
\* exist or does not hold r it leaves the edge map and both indices as they
\* were; when r is on the edge it takes r alone off edge (s, o) and changes
\* no other edge.
C16_RemoveRightFrame ==
    call.op = "remove_right" =>
        LET s == call.ids[1]
            o == call.ids[2]
        IN /\ call.ret = "None"
           /\ (call.rights \cap get_rights(pre, s, o) = {}) => AG = pre
           /\ get_rights(AG, s, o) = get_rights(pre, s, o) \ call.rights
           /\ \A s2, o2 \in Ids :
                  <<s2, o2>> # <<s, o>> => get_rights(AG, s2, o2) = get_rights(pre, s2, o2)

\* C16 witness: remove_right of a right the existing edge does not hold, and
\* the edge keeps its rights.
C16_Witness ==
    /\ call.op = "remove_right"
    /\ get_rights(pre, call.ids[1], call.ids[2]) # {}
    /\ call.rights \cap get_rights(pre, call.ids[1], call.ids[2]) = {}
    /\ get_rights(AG, call.ids[1], call.ids[2]) = get_rights(pre, call.ids[1], call.ids[2])


\* C17: get_rights returns a value that does not alias internal storage.  A
\* set obtained from get_rights(s, o) holds the same rights after a later
\* add_right or remove_right on (s, o), and adding a right to the returned set
\* or discarding one from it changes neither has_right nor the edge map nor
\* the indices.
C17_GetRightsNoAlias ==
    /\ call.op \in {"get_rights;add_right", "get_rights;remove_right"} =>
           call.held_after = call.held_before
    /\ call.op \in {"get_rights;add", "get_rights;discard"} =>
           /\ AG = pre
           /\ \A s, o \in Ids, r \in AccessRight :
                  has_right(AG, s, o, r) <=> has_right(pre, s, o, r)


\* the sequences that list every member of the set S once
Orderings(S) ==
    {p \in [1..Cardinality(S) -> S] : \A i, j \in DOMAIN p : i # j => p[i] # p[j]}

\* The graph object, and the order of its keys, that create(s, o, rights)
\* builds from the empty graph for the edges of G taken in the order p.
RECURSIVE Rebuilt(_, _, _)
Rebuilt(G, p, n) ==
    IF n = 0 THEN [G |-> NewAccessGraph, keys |-> <<>>]
    ELSE LET sofar == Rebuilt(G, p, n - 1)
             made == create(sofar.G, p[n][1], p[n][2], G.graph[p[n]]).G
         IN [G |-> made, keys |-> KeysAfter(sofar.keys, made.graph)]

\* C18: get_all_edges is deterministic for a given edge-set.  A graph that
\* holds the same (subject, object, rights) edges as the listed one, built by
\* creating those edges in any order, returns the same sequence from
\* get_all_edges.
C18_EdgeListDetermined ==
    call.op = "get_all_edges" =>
        \A p \in Orderings(DOMAIN pre.graph) :
            LET other == Rebuilt(pre, p, Len(p))
            IN other.G.graph = pre.graph =>
                   get_all_edges(other.G, other.keys) = call.ret


\* C19: check_right(s, o, r) returns the same result as can_access(s, o, r),
\* for every graph state and all s, o, r, in whatever order the sets of the
\* search are walked.
C19_CheckRightIsCanAccess ==
    /\ call.op = "can_access" =>
           \A r \in call.rights, ord \in IterOrders :
               PyBool(check_right(pre, call.ids[1], call.ids[2], r, ord).ret) = call.ret
    /\ call.op = "check_right" =>
           \A r \in call.rights, ord \in IterOrders :
               PyBool(can_access(pre, call.ids[1], call.ids[2], r, ord).ret) = call.ret

\* C19 witness: check_right returned true for a right the subject does not
\* hold directly, after the search.
C19_Witness ==
    /\ call.op = "check_right"
    /\ call.ret = "True"
    /\ call.searched
    /\ \A r \in call.rights : ~has_right(pre, call.ids[1], call.ids[2], r)

\* the identifiers that are subject or object of some stored edge of G
Named(G) == {e[1] : e \in DOMAIN G.graph} \cup {e[2] : e \in DOMAIN G.graph}

\* C20: get_accessible_objects(s, r) returns, each exactly once, precisely
\* the identifiers x that are subject or object of some stored edge and for
\* which can_access(s, x, r) is true; an identifier of no edge is never
\* returned.
C20_AccessibleObjectsExact ==
    call.op = "get_accessible_objects" =>
        /\ \A i, j \in DOMAIN call.ret : i # j => call.ret[i] # call.ret[j]
        /\ \A r \in call.rights, ord \in IterOrders :
               {call.ret[i] : i \in DOMAIN call.ret} =
                   {x \in Named(pre) : can_access(pre, call.ids[1], x, r, ord).ret}
        /\ \A i \in DOMAIN call.ret : call.ret[i] \in Named(pre)

\* C20 witness: an identifier was returned, another identifier of an edge
\* was not, and one identifier is in no edge.
C20_Witness ==
    /\ call.op = "get_accessible_objects"
    /\ Len(call.ret) >= 1
    /\ \E x \in Named(pre) : \A i \in DOMAIN call.ret : call.ret[i] # x
    /\ \E x \in Ids : x \notin Named(pre)


\* C21: totality.  No call of a core operation ends in an error, whatever the
\* identifiers and the sets of rights it is given and whatever calls came
\* before it; has_right and get_rights on an edge that does not exist give
\* false and the empty set.
C21_NoCallFails ==
    /\ call.op # "none" => call.ret \in {"None", "True", "False"}
    /\ \A s, o \in Ids :
           <<s, o>> \notin DOMAIN graph =>
               /\ get_rights(AG, s, o) = {}
               /\ \A r \in AccessRight : ~has_right(AG, s, o, r)

\* ------------------------------------------------- the additive rules alone
\* Graphs are built by add_right, take, grant and create; one of the calls is
\* observed.
NextAdditive ==
    \/ Ready /\ \E s, o \in Ids, r \in ArgRights : AddRight(s, o, r)
    \/ Ready /\ \E s, src, tgt \in Ids, R \in {{READ, WRITE}, AccessRight} : Take(s, src, tgt, R)
    \/ Ready /\ \E s, src, tgt \in Ids, R \in {{READ, WRITE}, AccessRight} : Grant(s, src, tgt, R)
    \/ Ready /\ \E s, o \in Ids, R \in CreateRightSets : Create(s, o, R)

SpecAdditive == Init /\ [][NextAdditive]_vars


\* C22: rights cannot be manufactured.  A take or a grant puts right r on an
\* edge to object o only if some subject held r on o before the call, so
\* along any sequence of take and grant calls the set of (object, right)
\* pairs present on edges never grows.
C22_NoNewObjectRight ==
    call.op \in {"take", "grant"} =>
        \A o \in Ids, r \in AccessRight :
            (\E s \in Ids : has_right(AG, s, o, r)) => (\E s \in Ids : has_right(pre, s, o, r))

\* C22 witness: a grant gave the target subject a right that only the grantor
\* held on the object.
C22_Witness ==
    /\ call.op = "grant"
    /\ call.ret = "True"
    /\ \E r \in call.rights :
           /\ has_right(AG, call.ids[3], call.ids[2], r)
           /\ \A s \in Ids \ {call.ids[1]} : ~has_right(pre, s, call.ids[2], r)


\* the rights of every edge other than (s, o), and the membership of every
\* other pair in the two indices, are the same in graph objects G1 and G2
SameBut(G1, G2, s, o) ==
    \A s2, o2 \in Ids :
        <<s2, o2>> # <<s, o>> =>
            /\ get_rights(G1, s2, o2) = get_rights(G2, s2, o2)
            /\ (o2 \in get_subject_objects(G1, s2).val) <=> (o2 \in get_subject_objects(G2, s2).val)
            /\ (s2 \in get_object_subjects(G1, o2).val) <=> (s2 \in get_object_subjects(G2, o2).val)

\* C28: frame of the additive rules.  take(subject, source, target, R) changes
\* at most the edge (subject, target) and its index entries, grant(subject,
\* source, target_subject, R) at most the edge (target_subject, source) and
\* its index entries, create(s, o, Rs) at most the edge (s, o); none of them
\* takes a right off any edge.
C28_AdditiveFrame ==
    /\ call.op = "take" => SameBut(pre, AG, call.ids[1], call.ids[3])
    /\ call.op = "grant" => SameBut(pre, AG, call.ids[3], call.ids[2])
    /\ call.op = "create" => SameBut(pre, AG, call.ids[1], call.ids[2])
    /\ call.op \in {"take", "grant", "create"} =>
           \A s, o \in Ids : get_rights(pre, s, o) \subseteq get_rights(AG, s, o)

\* C28 witness: a take that made a new edge (subject, target) while the
\* source, which is neither the subject nor the target, kept its rights.
C28_Witness ==
    /\ call.op = "take"
    /\ call.ret = "True"
    /\ call.ids[2] \notin {call.ids[1], call.ids[3]}
    /\ get_rights(pre, call.ids[1], call.ids[3]) = {}
    /\ get_rights(AG, call.ids[1], call.ids[3]) # {}
    /\ get_rights(AG, call.ids[2], call.ids[3]) = get_rights(pre, call.ids[2], call.ids[3])

\* C29: remove(s, o, get_rights(s, o)), called for an existing edge with the
\* set get_rights just returned, completes without error and leaves no edge
\* (s, o) in the edge map or in either index; and remove(s, o, Rs) leaves
\* get_rights(s, o) equal to its previous value minus Rs.
C29_RemoveAllHeld ==
    /\ call.op = "remove_held" =>
           /\ call.ret = "None"
           /\ <<call.ids[1], call.ids[2]>> \notin DOMAIN graph
           /\ call.ids[2] \notin get_subject_objects(AG, call.ids[1]).val
           /\ call.ids[1] \notin get_object_subjects(AG, call.ids[2]).val
    /\ call.op \in {"remove", "remove_held"} =>
           get_rights(AG, call.ids[1], call.ids[2]) =
               get_rights(pre, call.ids[1], call.ids[2]) \ call.rights


\* C23: bulk removal on object deletion keeps the indices in lockstep.
\* After delete_object(subject, object_id) succeeds, no edge (s, object_id)
\* remains in the edge map, get_object_subjects(object_id) is empty and
\* object_id is in get_subject_objects(s) for no subject s.
C23_DeleteKeepsIndices ==
    (call.op = "delete_object" /\ call.ret = "True") =>
        LET object_id == call.ids[2]
        IN /\ \A e \in DOMAIN graph : e[2] # object_id
           /\ get_object_subjects(AG, object_id).val = {}
           /\ \A s \in DOMAIN subject_edges : object_id \notin get_subject_objects(AG, s).val


\* C30: deletion is authorised.  delete_object(subject, object) returns true,
\* and the object is then no longer registered, only if the object was
\* registered and subject is its recorded owner or can_access(subject,
\* object, OWN) is true; when it returns false the object registry, the file
\* contents and the rights graph are as they were.
C30_DeletionAuthorised ==
    call.op = "delete_object" =>
        LET subject == call.ids[1]
            object == call.ids[2]
            obj == get_object(call.before.OI, object)
        IN /\ call.ret = "True" =>
                  /\ obj # NoObject
                  /\ \/ obj.owner = subject
                     \/ \A ord \in IterOrders :
                            can_access(call.before.G, subject, object, OWN, ord).ret
                  /\ get_object(OM.OI, object) = NoObject
           /\ call.ret = "False" => OM = call.before

\* C30 witness: a subject that is not the owner deleted a file, allowed by the
\* search of can_access (it holds no OWN on the file itself).
C30_Witness ==
    /\ call.op = "delete_object"
    /\ call.ret = "True"
    /\ get_object(call.before.OI, call.ids[2]).owner # call.ids[1]
    /\ ~has_right(call.before.G, call.ids[1], call.ids[2], OWN)
    /\ call.ids[2] \in DOMAIN call.before.file_contents
    /\ call.ids[2] \notin DOMAIN file_contents


\* ------------------------------------------------------- the search alone
\* number of edges of the graphs the search is run on
MaxEdges == 3

\* the rights on an edge of such a graph
EdgeLabels == {{TAKE_RIGHT}, {GRANT}, {READ}}

\* The graphs with at most n edges labelled from EdgeLabels, as add_right
\* builds them.  The calls that built the graph are over: the next call made
\* on it is observed.
InitGraphs(n) ==
    /\ \E E \in SUBSET (Ids \X Ids) :
           /\ Cardinality(E) <= n
           /\ \E lab \in [E -> EdgeLabels] :
                  LET G == GraphOf([e \in Ids \X Ids |-> IF e \in E THEN lab[e] ELSE {}])
                  IN /\ graph = G.graph
                     /\ subject_edges = G.subject_edges
                     /\ object_edges = G.object_edges
    /\ nops = MaxOps
    /\ call = NoCall
    /\ pre = NewAccessGraph
    /\ graph_keys = KeysNotFollowed
    /\ objects = NewObjectIdentifier.objects
    /\ name_to_id = NewObjectIdentifier.name_to_id
    /\ file_contents = EmptyDict
    /\ users = EmptyDict
    /\ current_user = "None"
    /\ current_user_id = "None"

InitSearch == InitGraphs(MaxEdges)

\* the rights asked for: one that only ends a path, one that paths follow
SearchRights == {READ, TAKE_RIGHT}

NextSearch ==
    Ready /\ \E s, o \in Ids, r \in SearchRights, ord \in IterOrders : CanAccess(s, o, r, ord)

SpecSearch == InitSearch /\ [][NextSearch]_vars

\* the identifiers reached from the members of X by one or more edges that
\* carry TAKE
RECURSIVE TakeReach(_, _)
TakeReach(G, X) ==
    LET X1 == X \cup {e[2] : e \in {d \in DOMAIN G.graph : d[1] \in X /\ TAKE_RIGHT \in G.graph[d]}}
    IN IF X1 = X THEN X ELSE TakeReach(G, X1)

\* there is a chain S = N0, N1, ..., Nk (k >= 1) with has_right(Ni, Ni+1, TAKE)
\* for every i and has_right(Nk, O, r)
TakeChain(G, S, O, r) ==
    \E N \in TakeReach(G, {e[2] : e \in {d \in DOMAIN G.graph :
                                            d[1] = S /\ TAKE_RIGHT \in G.graph[d]}}) :
        has_right(G, N, O, r)

\* some identifier holds GRANT on some identifier that holds r on O
GrantCondition(G, O, r) ==
    \E e \in DOMAIN G.graph : GRANT \in G.graph[e] /\ has_right(G, e[2], O, r)

\* C24: exact result of the search.  can_access(S, O, r) returns true iff
\* has_right(S, O, r), or a chain of TAKE edges leads from S to an identifier
\* that holds r on O, or some identifier holds GRANT on an identifier that
\* holds r on O (whatever S is).
C24_SearchResultExact ==
    call.op = "can_access" =>
        \A r \in call.rights :
            (call.ret = "True") <=>
                \/ has_right(pre, call.ids[1], call.ids[2], r)
                \/ TakeChain(pre, call.ids[1], call.ids[2], r)
                \/ GrantCondition(pre, call.ids[2], r)

\* C24 witness: true by a chain of two TAKE edges and nothing else.
C24_Witness ==
    /\ call.op = "can_access"
    /\ call.ret = "True"
    /\ \A r \in call.rights :
           /\ ~has_right(pre, call.ids[1], call.ids[2], r)
           /\ ~GrantCondition(pre, call.ids[2], r)
           /\ \A N \in Ids : has_right(pre, call.ids[1], N, TAKE_RIGHT)
                                => ~has_right(pre, N, call.ids[2], r)

\* the sequence q holds no identifier twice
NoRepeat(q) == \A i, j \in DOMAIN q : i # j => q[i] # q[j]

\* C25: cycle guard.  Within one can_access invocation _dfs_search goes past
\* its visited check at most once for each subject identifier.
C25_VisitedOnce ==
    call.op = "can_access" =>
        \A r \in call.rights, ord \in IterOrders :
            NoRepeat(can_access(pre, call.ids[1], call.ids[2], r, ord).visits)

\* C26: termination of the search.  can_access returns on every graph, also
\* with cycles of TAKE edges and self-loops, and the number of nested
\* _dfs_search calls never exceeds the number of distinct identifiers in the
\* graph plus one.
C26_SearchDepthBounded ==
    call.op = "can_access" =>
        /\ call.ret \in {"True", "False"}
        /\ \A r \in call.rights, ord \in IterOrders :
               can_access(pre, call.ids[1], call.ids[2], r, ord).depth
                   <= Cardinality(Named(pre)) + 1

\* C26 witness: the search returned false on a graph whose TAKE edges form a
\* cycle through all three identifiers, after nesting four calls.
C26_Witness ==
    /\ call.op = "can_access"
    /\ call.ret = "False"
    /\ \A x \in Ids : \E y \in Ids \ {x} : has_right(pre, x, y, TAKE_RIGHT)
    /\ \E r \in call.rights, ord \in IterOrders :
           can_access(pre, call.ids[1], call.ids[2], r, ord).depth = 4


\* ------------------------------------- an answer and what is added after it
\* number of edges of the graphs an answer is followed up on
MonoEdges == 2

InitMono == InitGraphs(MonoEdges)

\* A caller that can_access answered true makes one call that only adds to
\* the graph; what was asked is kept beside the record of that call.
Then(name, ids, rights, res) ==
    /\ call.op = "can_access"
    /\ call.ret = "True"
    /\ graph' = res.G.graph
    /\ subject_edges' = res.G.subject_edges
    /\ object_edges' = res.G.object_edges
    /\ call' = [op |-> name, ids |-> ids, rights |-> rights, ret |-> res.ret,
                asked |-> [ids |-> call.ids, rights |-> call.rights]]
    /\ pre' = AG
    /\ UNCHANGED <<nops, graph_keys, opsVars, authVars>>

ThenAddRight(s, o, r) ==
    Then("add_right", <<s, o>>, {r}, [G |-> add_right(AG, s, o, r), ret |-> "None"])

ThenCreate(s, o, R) == Then("create", <<s, o>>, R, create(AG, s, o, R))

ThenTake(s, src, tgt, R) == Then("take", <<s, src, tgt>>, R, take(AG, s, src, tgt, R))

ThenGrant(s, src, tgt, R) == Then("grant", <<s, src, tgt>>, R, grant(AG, s, src, tgt, R))

NextMono ==
    \/ Ready /\ \E s, o \in Ids, ord \in IterOrders : CanAccess(s, o, READ, ord)
    \/ \E s, o \in Ids, r \in ArgRights : ThenAddRight(s, o, r)
    \/ \E s, o \in Ids, R \in CreateRightSets : ThenCreate(s, o, R)
    \/ \E s, src, tgt \in Ids : ThenTake(s, src, tgt, AccessRight)
    \/ \E s, src, tgt \in Ids : ThenGrant(s, src, tgt, AccessRight)

SpecMono == InitMono /\ [][NextMono]_vars

\* the call was made by a caller that can_access had answered true
Followed == "asked" \in DOMAIN call

\* C27: monotonicity of reachability.  If can_access(s, o, r) is true in a
\* graph, it is still true after add_right, create, or a successful or failed
\* take or grant, whatever order the search iterates in.
C27_AdditiveKeepsAccess ==
    Followed =>
        \A r \in call.asked.rights, ord \in IterOrders :
            can_access(AG, call.asked.ids[1], call.asked.ids[2], r, ord).ret

\* C27 witness: access that was found through a TAKE edge only is still
\* found after a successful take changed the graph.
C27_Witness ==
    /\ Followed
    /\ call.op = "take"
    /\ call.ret = "True"
    /\ AG # pre
    /\ \A r \in call.asked.rights :
           /\ ~has_right(pre, call.asked.ids[1], call.asked.ids[2], r)
           /\ \A ord \in IterOrders :
                  can_access(AG, call.asked.ids[1], call.asked.ids[2], r, ord).ret


\* C31: deletion revokes all access.  After delete_object(subject, x) returns
\* true, x being the ID or the name of the object, no subject holds a right on
\* the ID of the deleted object, its file content is gone, and can_access(s,
\* id, r) is false for every s and r.
C31_DeletionRevokesAll ==
    (call.op = "delete_object" /\ call.ret = "True") =>
        LET id == get_object_id(call.before.OI, call.ids[2])
        IN /\ \A s \in Ids, r \in AccessRight : ~has_right(AG, s, id, r)
           /\ id \notin DOMAIN file_contents
           /\ \A s \in Ids, r \in AccessRight, ord \in IterOrders :
                  ~can_access(AG, s, id, r, ord).ret


\* object_id names a registered file of the ObjectIdentifier OI
RegisteredFile(OI, object_id) ==
    get_object(OI, object_id) # NoObject /\ get_object(OI, object_id).type = FILE

\* can_access(subject_id, object_id, right) is true in graph G
Allowed(G, subject_id, object_id, right) ==
    \A ord \in IterOrders : can_access(G, subject_id, object_id, right, ord).ret

\* C32: file operations are gated by the reachability decision.  read_file
\* returns a content only if can_access(s, f, READ) is true and f is a
\* registered FILE; write_file returns true and changes the stored content
\* only if can_access(s, f, WRITE) is true and f is a registered FILE;
\* execute_file likewise with EXECUTE; on denial the stored contents and the
\* graph are unchanged.
C32_FileOperationsGated ==
    call.op \in {"read_file", "write_file", "execute_file"} =>
        LET passed == /\ \A r \in call.rights : Allowed(call.before.G, call.ids[1], call.ids[2], r)
                      /\ RegisteredFile(call.before.OI, call.ids[2])
        IN /\ call.ret \notin {"None", "False"} => passed
           /\ file_contents # call.before.file_contents => passed /\ call.op = "write_file"
           /\ call.ret \in {"None", "False"} => OM = call.before

\* C32 witness: a subject that holds no right on a file wrote it, allowed by
\* the search of can_access, and the content changed.
C32_Witness ==
    /\ call.op = "write_file"
    /\ call.ret = "True"
    /\ get_rights(call.before.G, call.ids[1], call.ids[2]) = {}
    /\ DictGet(call.before.file_contents, call.ids[2], "") = ""
    /\ DictGet(file_contents, call.ids[2], "") = call.ids[3]

\* C33: create_file(s, name) with an unused name registers a new object owned
\* by s, gives s all six rights on the new ID and initialises its content to
\* empty; with a registered name it returns None and leaves the registry,
\* the file contents and the graph unchanged.  The same holds for
\* create_directory, which stores no content.
C33_CreateFileContract ==
    call.op \in {"create_file", "create_directory"} =>
        LET s == call.ids[1]
            name == call.ids[2]
            new == call.ret
        IN IF name \in DOMAIN call.before.OI.name_to_id
           THEN new = "None" /\ OM = call.before
           ELSE /\ new # "None"
                /\ new \notin DOMAIN call.before.OI.objects
                /\ DOMAIN objects = DOMAIN call.before.OI.objects \cup {new}
                /\ objects[new].owner = s
                /\ objects[new].name = name
                /\ name_to_id = DictPut(call.before.OI.name_to_id, name, new)
                /\ get_rights(AG, s, new) = AccessRight
                /\ IF call.op = "create_file"
                   THEN /\ objects[new].type = FILE
                        /\ file_contents = DictPut(call.before.file_contents, new, "")
                   ELSE /\ objects[new].type = DIRECTORY
                        /\ file_contents = call.before.file_contents

\* C33 witness: a file was created under an unused name while another object
\* was registered; its owner holds all six rights and its content is empty.
C33_Witness ==
    /\ call.op = "create_file"
    /\ call.before.OI.objects # EmptyDict
    /\ call.ret # "None"
    /\ get_rights(AG, call.ids[1], call.ret) = AccessRight
    /\ file_contents[call.ret] = ""


\* C34: trojan scenario.  From an empty system, after alice has created a
\* file and written content c to it, read_file(attacker, file) returns None;
\* after grant(alice, file, attacker, {READ, WRITE}), which returns true,
\* can_access(attacker, file, READ) is true, read_file(attacker, file)
\* returns c, the attacker holds exactly READ and WRITE on the file and alice
\* still holds all six rights.
C34_TrojanScenario ==
    call.op = "trojan" =>
        LET alice == call.ids[1]
            attacker == call.ids[2]
            file == call.ids[3]
        IN /\ call.denied \in {NotYet, "None"}
           /\ call.granted \in {NotYet, "True"}
           /\ call.can_read \in {NotYet, "True"}
           /\ call.content \in {NotYet, IF call.written = NotYet THEN "" ELSE call.written}
           /\ get_rights(AG, alice, file) = AccessRight
           /\ get_rights(AG, attacker, file) = IF call.granted = NotYet THEN {} ELSE {READ, WRITE}

\* C34 witness: every step of the scenario was made; the attacker, refused
\* before the grant, read what alice had written.
C34_Witness ==
    /\ call.op = "trojan"
    /\ call.written \in Secrets
    /\ call.denied = "None"
    /\ call.granted = "True"
    /\ call.can_read = "True"
    /\ call.content = call.written
    /\ file_contents[call.ids[3]] = call.written


\* the registry of A lists name as an administrator
Administrator(A, name) == name \in DOMAIN A.users /\ A.users[name].is_admin

\* C35: administrative rights changes require the admin flag.  grant_rights
\* and revoke_rights called with a user name that is not an administrator
\* return false and leave the graph unchanged; called by an administrator
\* they return true and add (remove) exactly the given rights on edge
\* (subject, object), with no Take-Grant precondition.
C35_AdminFlagRequired ==
    call.op \in {"grant_rights", "revoke_rights"} =>
        LET s == call.ids[2]
            o == call.ids[3]
        IN IF ~Administrator(call.auth, call.ids[1])
           THEN call.ret = "False" /\ AG = pre
           ELSE /\ call.ret = "True"
                /\ SameBut(pre, AG, s, o)
                /\ get_rights(AG, s, o) = IF call.op = "grant_rights"
                                          THEN get_rights(pre, s, o) \cup call.rights
                                          ELSE get_rights(pre, s, o) \ call.rights


\* the commands that require_auth guards
Gated == {"create_file", "create_dir", "read", "write", "delete", "take", "grant", "check", "admin"}

\* C36: session gate of the command interpreter.  While no user is logged
\* in, the guarded commands change neither the graph nor the file contents;
\* when a user is logged in, take and grant act for that user (what a take
\* changes is an edge of the user, reached over a TAKE right the user holds,
\* what a grant changes comes from an edge of the user that carries GRANT);
\* and the admin command changes the graph only if the user is an
\* administrator.
C36_SessionGate ==
    call.op = "cli" =>
        LET user == call.before.current_user_id
            G0 == call.before.M.G
        IN /\ (user = "None" /\ call.cmd \in Gated) =>
                  AG = G0 /\ file_contents = call.before.M.file_contents
           /\ (user # "None" /\ call.cmd = "take" /\ AG # G0) =>
                  \E src, tgt \in Ids :
                      /\ has_right(G0, user, src, TAKE_RIGHT)
                      /\ SameBut(G0, AG, user, tgt)
                      /\ get_rights(AG, user, tgt)
                             \subseteq get_rights(G0, user, tgt) \cup get_rights(G0, src, tgt)
           /\ (user # "None" /\ call.cmd = "grant" /\ AG # G0) =>
                  \E src, tgt \in Ids :
                      /\ has_right(G0, user, src, GRANT)
                      /\ SameBut(G0, AG, tgt, src)
                      /\ get_rights(AG, tgt, src)
                             \subseteq get_rights(G0, tgt, src) \cup get_rights(G0, user, src)
           /\ (call.cmd = "admin" /\ AG # G0) => Administrator(call.before.A, user)

\* C36 witness: a user created a file and logged out; the grant typed next,
\* which that user could have made, changed nothing.
C36_Witness ==
    /\ call.op = "cli"
    /\ call.cmd = "grant"
    /\ call.before.current_user_id = "None"
    /\ \E u \in UserNames, o \in Ids : has_right(call.before.M.G, u, o, GRANT)
    /\ AG = call.before.M.G

\* C37: session state agreement.  After every command CLI.current_user_id
\* and AuthenticationModule.current_user name the same user or are both
\* empty; after the logout command is_authenticated() is false.
C37_SessionAgreement ==
    /\ current_user_id = current_user
    /\ (call.op = "cli" /\ call.cmd = "logout") => ~is_authenticated(AM)

=============================================================================
